---- MODULE Spec2Model ----
(***************************************************************************)
(* Model of the similarity engine of spotify-mcp:                          *)
(*   server.py             spotify_find_similar_tracks (the orchestrator)  *)
(*   similarity/engine.py  get_candidate_tracks, get_source_features,      *)
(*                         get_source_genres, get_track_genres,            *)
(*                         get_audio_features_for_tracks, average_features *)
(*   similarity/strategies.py  calculate_similarity,                       *)
(*                         calculate_genre_similarity                      *)
(*   utils.py              handle_spotify_error, create_playlist_helper,   *)
(*                         add_tracks_to_playlist_helper                   *)
(*                                                                         *)
(* The Spotify Web API is the environment: every make_spotify_request is   *)
(* logged in `calls` and answered nondeterministically, either with data   *)
(* drawn from small sets or with one of the failures httpx can raise.      *)
(* Python's None is 0 for identifiers; floats are exact rationals <<n,d>>. *)
(***************************************************************************)
EXTENDS Integers, Sequences, FiniteSets, TLC

\* ------------------------------------------------------------------ bounds
NumTracks == 2          \* distinct tracks of the catalogue: ids 1..NumTracks
MaxListing == 2         \* entries of a playlist / saved-tracks listing
MaxTop == 1             \* tracks of an artist's top-tracks answer
MaxAlbums == 1          \* albums of an artist-albums answer
MaxAlbumTracks == 2     \* track stubs of an album-tracks answer
MaxCollectLimit == 2    \* `limit` of a direct get_candidate_tracks call
MaxLimit == 2           \* `limit` of a spotify_find_similar_tracks request
MaxGenres == 2          \* genres of a list given to calculate_genre_similarity
MaxIds == 201           \* ids of a direct get_audio_features_for_tracks call
MaxSourceTracks == 1    \* tracks of the artist or playlist a request names as source

\* ------------------------------------------------------- program constants
PAGE_SIZE == 50         \* engine.py: min(50, limit - len(tracks))
ALBUM_CAP == 5          \* engine.py: albums_data.get("items", [])[:5]
POOL_LIMIT == 500       \* server.py: get_candidate_tracks(..., limit=500)
LIMIT_MAX == 100        \* types.py: FindSimilarTracksInput.limit, le=100

None == 0

Min(a, b) == IF a <= b THEN a ELSE b
Max(a, b) == IF a >= b THEN a ELSE b

\* seq[:n] of Python, n >= 0
Take(seq, n) == SubSeq(seq, 1, Min(n, Len(seq)))

\* all sequences over S of length at most n
SeqsUpTo(S, n) == UNION {[1..k -> S] : k \in 0..n}

\* ------------------------------------------------------------- the catalogue
TrackIds == 1..NumTracks
\* "spotify:track:<id>": the uri of a track is not its id
Uri(id) == 100 + id
\* the artists credited on a track: track 1 has one artist, every other two
ArtistsOf(id) == IF id = 1 THEN <<1>> ELSE <<1, 2>>
TrackObj(id) == [id |-> id, uri |-> Uri(id), artists |-> ArtistsOf(id)]
Tracks == {TrackObj(id) : id \in TrackIds}
\* the "track" of a listing entry whose track is null (removed or local track)
NoTrack == [id |-> None, uri |-> None, artists |-> <<>>]

\* scope enumeration of engine.py
CATALOG == "catalog"
PLAYLIST == "playlist"
ARTIST == "artist"
ALBUM == "album"
SAVED_TRACKS == "saved_tracks"
SearchScope == {CATALOG, PLAYLIST, ARTIST, ALBUM, SAVED_TRACKS}

\* ------------------------------------------------------------- exceptions
HTTPStatusError(status) == [type |-> "HTTPStatusError", status |-> status, msg |-> "http"]
TimeoutException == [type |-> "TimeoutException", status |-> 0, msg |-> "timeout"]
ValueError(msg) == [type |-> "ValueError", status |-> 0, msg |-> msg]
NoExc == [type |-> "none", status |-> 0, msg |-> ""]
\* what make_spotify_request can raise: raise_for_status() or the 30 s timeout
\* (500 stands for the statuses handle_spotify_error does not single out)
ServiceFailures ==
    {HTTPStatusError(401), HTTPStatusError(403), HTTPStatusError(404), HTTPStatusError(429),
     HTTPStatusError(500), TimeoutException}

\* one logged request to the Web API
\* (data: the ids of a batch, the targets of a recommendation query, the
\* uris of an add-tracks request)
Call(op, id, limit, off, data) ==
    [op |-> op, id |-> id, limit |-> limit, offset |-> off, data |-> data]

VARIABLES
    params,             \* spotify_find_similar_tracks: the FindSimilarTracksInput
    pc,                 \* spotify_find_similar_tracks: position in the handler
    result,             \* what the handler returned
    source_features,    \* local of the handler
    source_genres,      \* local of the handler
    candidate_tracks,   \* local of the handler
    idx,                \* genre scoring loop: candidates visited so far
    scored,             \* every candidate scored so far, with its score
    pre_sort,           \* similar_tracks as it was when the sort began
    similar_tracks,     \* local of the handler
    playlist_data,      \* what create_playlist_helper returned
    features_map,       \* local of the handler: what get_audio_features_for_tracks returned
    target_genres       \* what get_track_genres returned for each candidate visited so far

h_vars == <<params, pc, result, source_features, source_genres, candidate_tracks,
            idx, scored, pre_sort, similar_tracks, playlist_data, features_map, target_genres>>

VARIABLES
    calls,          \* the requests issued so far, in order
    gc_pc,          \* get_candidate_tracks: position in the function
    gc_args,        \* get_candidate_tracks: [scope, scope_id, limit]
    tracks,         \* get_candidate_tracks: the local list `tracks`
    offset,         \* get_candidate_tracks: the local `offset`
    gc_albums,      \* artist scope: albums still to visit
    gc_items,       \* artist / album scope: track stubs still to visit
    gc_ret          \* get_candidate_tracks: [kind, tracks, exc] once it ended

gc_vars == <<gc_pc, gc_args, tracks, offset, gc_albums, gc_items, gc_ret>>

VARIABLES
    fn_pc,          \* a function called on its own: position in it
    fn_args,        \* its arguments
    fn_locals,      \* its local variables
    fn_ret          \* [kind, value] once it ended

fn_vars == <<fn_pc, fn_args, fn_locals, fn_ret>>

GcReturn(list) == [kind |-> "return", tracks |-> list, exc |-> NoExc]
GcRaise(e) == [kind |-> "raise", tracks |-> <<>>, exc |-> e]
GcRunning == [kind |-> "running", tracks |-> <<>>, exc |-> NoExc]

vars == <<h_vars, calls, gc_vars, fn_vars>>

\* --------------------------------------------------- get_candidate_tracks
AlbumIds == 1..MaxAlbums
\* item.get("track") is truthy
HasTrack(item) == item # NoTrack
\* the pages a finite listing can answer to (limit n, offset off)
Pages(n, off) == SeqsUpTo(Tracks \cup {NoTrack}, Min(n, Max(MaxListing - off, 0)))

GcEnd(ret) ==
    /\ gc_pc' = "done"
    /\ gc_ret' = ret

\* a loop that goes on until a page comes back empty
StillNeededAlways(have, limit) == TRUE
\* `while len(tracks) < limit`
StillNeeded(have, limit) == have < limit

\* a page of full size whatever is still needed
PageLimitFull(limit, have) == PAGE_SIZE
\* "limit": min(50, limit - len(tracks))
PageLimit(limit, have) == Min(PAGE_SIZE, limit - have)

\* entry of get_candidate_tracks: the scope dispatch and the scope_id checks
GcEnter ==
    /\ gc_pc = "call"
    /\ tracks' = <<>>
    /\ offset' = 0
    /\ UNCHANGED <<fn_vars, h_vars, calls, gc_args, gc_albums, gc_items>>
    /\ CASE gc_args.scope = CATALOG -> GcEnd(GcReturn(<<>>))
         [] gc_args.scope = PLAYLIST ->
              IF gc_args.scope_id = None
              THEN GcEnd(GcRaise(ValueError("scope_id (playlist_id) is required for playlist scope")))
              ELSE IF StillNeeded(0, gc_args.limit)
                   THEN gc_pc' = "playlist_page" /\ gc_ret' = GcRunning
                   ELSE GcEnd(GcReturn(<<>>))
         [] gc_args.scope = ARTIST ->
              IF gc_args.scope_id = None
              THEN GcEnd(GcRaise(ValueError("scope_id (artist_id) is required for artist scope")))
              ELSE gc_pc' = "artist_top" /\ gc_ret' = GcRunning
         [] gc_args.scope = ALBUM ->
              IF gc_args.scope_id = None
              THEN GcEnd(GcRaise(ValueError("scope_id (album_id) is required for album scope")))
              ELSE gc_pc' = "album_list" /\ gc_ret' = GcRunning
         [] gc_args.scope = SAVED_TRACKS ->
              IF StillNeeded(0, gc_args.limit)
              THEN gc_pc' = "saved_page" /\ gc_ret' = GcRunning
              ELSE GcEnd(GcReturn(<<>>))

\* one iteration of `while len(tracks) < limit` of the playlist and the
\* saved_tracks branches: one page request, the items appended, the offset
\* moved; answers(n, off) are the pages the service can answer with
PageLoopOver(at, op, id, answers(_, _)) ==
    /\ gc_pc = at
    /\ LET n == PageLimit(gc_args.limit, Len(tracks)) IN
       /\ calls' = Append(calls, Call(op, id, n, offset, <<>>))
       /\ \/ \E e \in ServiceFailures :
                /\ GcEnd(GcRaise(e))
                /\ UNCHANGED <<tracks, offset>>
          \/ \E items \in answers(n, offset) :
                IF items = <<>>
                THEN /\ GcEnd(GcReturn(tracks))
                     /\ UNCHANGED <<tracks, offset>>
                ELSE LET new == tracks \o SelectSeq(items, HasTrack) IN
                     /\ tracks' = new
                     /\ offset' = offset + Len(items)
                     /\ IF StillNeeded(Len(new), gc_args.limit)
                        THEN UNCHANGED <<gc_pc, gc_ret>>
                        ELSE GcEnd(GcReturn(new))
    /\ UNCHANGED <<fn_vars, h_vars, gc_args, gc_albums, gc_items>>

\* the loop against a service that answers any page
PageLoop(at, op, id) == PageLoopOver(at, op, id, Pages)

GcPlaylistPage == PageLoop("playlist_page", "GET playlists/{id}/tracks", gc_args.scope_id)

GcSavedPage == PageLoop("saved_page", "GET me/tracks", None)

\* the nested loops with a detail fetch for every album track
ArtistNextFetchAll(trk, items, albums) ==
    IF items # <<>>
    THEN gc_pc' = "artist_full" /\ gc_ret' = GcRunning
    ELSE IF albums # <<>>
         THEN gc_pc' = "artist_album_tracks" /\ gc_ret' = GcRunning
         ELSE GcEnd(GcReturn(Take(trk, gc_args.limit)))

\* artist scope: where the two nested loops go next. The detail fetch of an
\* album track is skipped once len(tracks) >= limit; the albums are still visited.
ArtistNext(trk, items, albums) ==
    IF items # <<>> /\ Len(trk) < gc_args.limit
    THEN gc_pc' = "artist_full" /\ gc_ret' = GcRunning
    ELSE IF albums # <<>>
         THEN gc_pc' = "artist_album_tracks" /\ gc_ret' = GcRunning
         ELSE GcEnd(GcReturn(Take(trk, gc_args.limit)))

\* the top-tracks request, answered with one of top_lists
GcArtistTopFrom(top_lists) ==
    /\ gc_pc = "artist_top"
    /\ calls' = Append(calls, Call("GET artists/{id}/top-tracks", gc_args.scope_id, 0, 0, <<>>))
    /\ \/ \E e \in ServiceFailures : GcEnd(GcRaise(e)) /\ UNCHANGED tracks
       \/ \E top \in top_lists :
             /\ tracks' = top
             /\ gc_pc' = "artist_albums"
             /\ UNCHANGED gc_ret
    /\ UNCHANGED <<fn_vars, h_vars, gc_args, offset, gc_albums, gc_items>>

GcArtistTop == GcArtistTopFrom(SeqsUpTo(Tracks, MaxTop))

\* the albums request, answered with one of album_lists
GcArtistAlbumsFrom(album_lists) ==
    /\ gc_pc = "artist_albums"
    /\ calls' = Append(calls, Call("GET artists/{id}/albums", gc_args.scope_id, 20, 0, <<>>))
    /\ \/ \E e \in ServiceFailures : GcEnd(GcRaise(e)) /\ UNCHANGED gc_albums
       \/ \E albums \in album_lists :
             /\ gc_albums' = Take(albums, ALBUM_CAP)
             /\ ArtistNext(tracks, <<>>, Take(albums, ALBUM_CAP))
    /\ UNCHANGED <<fn_vars, h_vars, gc_args, tracks, offset, gc_items>>

GcArtistAlbums == GcArtistAlbumsFrom(SeqsUpTo(AlbumIds, MaxAlbums))

\* the track listing of the next album, answered with one of item_lists
GcArtistAlbumTracksFrom(item_lists) ==
    /\ gc_pc = "artist_album_tracks"
    /\ calls' = Append(calls, Call("GET albums/{id}/tracks", Head(gc_albums), 50, 0, <<>>))
    /\ \/ \E e \in ServiceFailures : GcEnd(GcRaise(e)) /\ UNCHANGED <<gc_albums, gc_items>>
       \/ \E items \in item_lists :
             /\ gc_albums' = Tail(gc_albums)
             /\ gc_items' = items
             /\ ArtistNext(tracks, items, Tail(gc_albums))
    /\ UNCHANGED <<fn_vars, h_vars, gc_args, tracks, offset>>

GcArtistAlbumTracks == GcArtistAlbumTracksFrom(SeqsUpTo(TrackIds, MaxAlbumTracks))

GcArtistFull ==
    /\ gc_pc = "artist_full"
    /\ calls' = Append(calls, Call("GET tracks/{id}", Head(gc_items), 0, 0, <<>>))
    /\ \/ \E e \in ServiceFailures : GcEnd(GcRaise(e)) /\ UNCHANGED <<tracks, gc_items>>
       \/ /\ tracks' = Append(tracks, TrackObj(Head(gc_items)))
          /\ gc_items' = Tail(gc_items)
          /\ ArtistNext(Append(tracks, TrackObj(Head(gc_items))), Tail(gc_items), gc_albums)
    /\ UNCHANGED <<fn_vars, h_vars, gc_args, offset, gc_albums>>

GcAlbumList ==
    /\ gc_pc = "album_list"
    /\ calls' = Append(calls, Call("GET albums/{id}/tracks", gc_args.scope_id, 50, 0, <<>>))
    /\ \/ \E e \in ServiceFailures : GcEnd(GcRaise(e)) /\ UNCHANGED gc_items
       \/ \E items \in SeqsUpTo(TrackIds, MaxAlbumTracks) :
             /\ gc_items' = items
             /\ IF items = <<>>
                THEN GcEnd(GcReturn(<<>>))
                ELSE gc_pc' = "album_full" /\ UNCHANGED gc_ret
    /\ UNCHANGED <<fn_vars, h_vars, gc_args, tracks, offset, gc_albums>>

GcAlbumFull ==
    /\ gc_pc = "album_full"
    /\ calls' = Append(calls, Call("GET tracks/{id}", Head(gc_items), 0, 0, <<>>))
    /\ \/ \E e \in ServiceFailures : GcEnd(GcRaise(e)) /\ UNCHANGED <<tracks, gc_items>>
       \/ /\ tracks' = Append(tracks, TrackObj(Head(gc_items)))
          /\ gc_items' = Tail(gc_items)
          /\ IF Tail(gc_items) = <<>>
             THEN GcEnd(GcReturn(Append(tracks, TrackObj(Head(gc_items)))))
             ELSE UNCHANGED <<gc_pc, gc_ret>>
    /\ UNCHANGED <<fn_vars, h_vars, gc_args, offset, gc_albums>>

GcNext ==
    \/ GcEnter
    \/ GcPlaylistPage
    \/ GcSavedPage
    \/ GcArtistTop
    \/ GcArtistAlbums
    \/ GcArtistAlbumTracks
    \/ GcArtistFull
    \/ GcAlbumList
    \/ GcAlbumFull

\* ------------------------------------------------------ exact rationals
\* a float is modelled by the rational <<n, d>> in lowest terms, d > 0
Abs(x) == IF x < 0 THEN -x ELSE x

RECURSIVE GCD(_, _)
GCD(a, b) == IF b = 0 THEN a ELSE GCD(b, a % b)

Rat(n, d) == LET g == GCD(Abs(n), d) IN <<n \div g, d \div g>>
RZero == <<0, 1>>
ROne == <<1, 1>>
RHalf == <<1, 2>>
RAdd(a, b) == Rat(a[1] * b[2] + b[1] * a[2], a[2] * b[2])
RSub(a, b) == Rat(a[1] * b[2] - b[1] * a[2], a[2] * b[2])
RMul(a, b) == Rat(a[1] * b[1], a[2] * b[2])
\* a / b for b > 0
RDiv(a, b) == Rat(a[1] * b[2], a[2] * b[1])
RAbs(a) == <<Abs(a[1]), a[2]>>
RLeq(a, b) == a[1] * b[2] <= b[1] * a[2]
RLess(a, b) == a[1] * b[2] < b[1] * a[2]
RMin(a, b) == IF RLeq(a, b) THEN a ELSE b
RMax(a, b) == IF RLeq(a, b) THEN b ELSE a

\* --------------------------------------------------------- audio features
\* numeric_keys of average_features, the nine dimensions of a feature vector
NumericKeys == <<"acousticness", "danceability", "energy", "instrumentalness",
                 "liveness", "loudness", "speechiness", "valence", "tempo">>
KeySet == {NumericKeys[i] : i \in DOMAIN NumericKeys}

\* features.get(key, default)
Get(features, key, default) == IF key \in DOMAIN features THEN features[key] ELSE default

\* normalize_audio_features: seven pass-through keys with default 0.0,
\* loudness (default -30) mapped by (x + 60) / 60, tempo (default 120) by (x - 50) / 150
normalize_audio_features(features) ==
    [k \in KeySet |->
        CASE k = "loudness" -> RDiv(RAdd(Get(features, k, <<-30, 1>>), <<60, 1>>), <<60, 1>>)
          [] k = "tempo" -> RDiv(RSub(Get(features, k, <<120, 1>>), <<50, 1>>), <<150, 1>>)
          [] OTHER -> Get(features, k, RZero)]

RECURSIVE SumOver(_, _, _)
\* sum(term(k) for k in keys[i:]) over the fixed key order
SumOver(term(_), keys, i) ==
    IF i > Len(keys) THEN RZero ELSE RAdd(term(keys[i]), SumOver(term, keys, i + 1))

\* calculate_manhattan_distance: sum of |f1[k] - f2[k]| over the keys of f1 that f2 has
calculate_manhattan_distance(features1, features2) ==
    LET term(k) == IF k \in DOMAIN features1 /\ k \in DOMAIN features2
                   THEN RAbs(RSub(features1[k], features2[k]))
                   ELSE RZero
    IN SumOver(term, NumericKeys, 1)

\* math.sqrt(x), kept exact: the root of the rational x >= 0
Sqrt(x) == [sqrt_of |-> x]
\* 1.0 / (1.0 + distance) for a distance that is a root: the score
\* 1 / (1 + sqrt(x)), which is in (0, 1] and is 1 exactly when x = 0
InvOnePlus(distance) == [form |-> "1/(1+sqrt(x))", x |-> distance.sqrt_of]

\* `weights = weights or {}`: no weights
NoWeights == <<>>

\* the distance with every weight taken as 1
calculate_euclidean_distance_unweighted(features1, features2, weights) ==
    LET term(k) == IF k \in DOMAIN features1 /\ k \in DOMAIN features2
                   THEN RMul(RSub(features1[k], features2[k]), RSub(features1[k], features2[k]))
                   ELSE RZero
    IN Sqrt(SumOver(term, NumericKeys, 1))

\* calculate_euclidean_distance: the root of the sum of
\* weights.get(k, 1.0) * (f1[k] - f2[k]) ** 2 over the keys of f1 that f2 has
calculate_euclidean_distance(features1, features2, weights) ==
    LET term(k) == IF k \in DOMAIN features1 /\ k \in DOMAIN features2
                   THEN RMul(Get(weights, k, ROne),
                             RMul(RSub(features1[k], features2[k]),
                                  RSub(features1[k], features2[k])))
                   ELSE RZero
    IN Sqrt(SumOver(term, NumericKeys, 1))

\* calculate_cosine_similarity: 0.0 (0 / sqrt(1)) if a magnitude is 0, else the dot product
\* over the keys of f1 that f2 has, divided by the product of the magnitudes
\* (kept exact: dot / sqrt(x), x the product of the squared magnitudes)
calculate_cosine_similarity(features1, features2) ==
    LET prod(k) == IF k \in DOMAIN features1 /\ k \in DOMAIN features2
                   THEN RMul(features1[k], features2[k]) ELSE RZero
        sq1(k) == IF k \in DOMAIN features1 THEN RMul(features1[k], features1[k]) ELSE RZero
        sq2(k) == IF k \in DOMAIN features2 THEN RMul(features2[k], features2[k]) ELSE RZero
        magnitude1_sq == SumOver(sq1, NumericKeys, 1)
        magnitude2_sq == SumOver(sq2, NumericKeys, 1)
    IN IF magnitude1_sq = RZero \/ magnitude2_sq = RZero
       THEN [form |-> "dot/sqrt(x)", dot |-> RZero, x |-> ROne]
       ELSE [form |-> "dot/sqrt(x)", dot |-> SumOver(prod, NumericKeys, 1),
             x |-> RMul(magnitude1_sq, magnitude2_sq)]

\* calculate_similarity(source_features, target_features, strategy, weights);
\* a FeatureWeights object is the dict of its nine weights
calculate_similarity(source, target, strategy, weights) ==
    CASE strategy = "euclidean" ->
           InvOnePlus(calculate_euclidean_distance(
                normalize_audio_features(source), normalize_audio_features(target), NoWeights))
      [] strategy = "weighted" ->
           InvOnePlus(calculate_euclidean_distance(
                normalize_audio_features(source), normalize_audio_features(target), weights))
      [] strategy = "cosine" ->
           calculate_cosine_similarity(normalize_audio_features(source),
                                       normalize_audio_features(target))
      [] strategy = "manhattan" ->
           RDiv(ROne, RAdd(ROne, calculate_manhattan_distance(
                normalize_audio_features(source), normalize_audio_features(target))))
      [] strategy = "energy_match" ->
           RSub(ROne, RDiv(RAdd(RAbs(RSub(source["energy"], target["energy"])),
                                RAbs(RSub(source["danceability"], target["danceability"]))),
                           <<2, 1>>))
      [] strategy = "mood_match" ->
           RSub(ROne, RDiv(RAdd(RAbs(RSub(source["valence"], target["valence"])),
                                RAbs(RSub(source["acousticness"], target["acousticness"]))),
                           <<2, 1>>))
      [] strategy = "rhythm_match" ->
           LET tempo1 == source["tempo"]
               tempo2 == target["tempo"]
               tempo_diff == RDiv(RAbs(RSub(tempo1, tempo2)), RMax(RMax(tempo1, tempo2), ROne))
           IN RSub(ROne, RMin(tempo_diff, ROne))

\* the mean of each key over the vectors that have it
average_features_present_only(features_list) ==
    [k \in KeySet |->
        LET having == {i \in DOMAIN features_list : k \in DOMAIN features_list[i]}
            RECURSIVE total(_)
            total(i) == IF i > Len(features_list) THEN RZero
                        ELSE RAdd(Get(features_list[i], k, RZero), total(i + 1))
        IN IF having = {} THEN RZero ELSE RDiv(total(1), <<Cardinality(having), 1>>)]

\* average_features over a non-empty list: per key, sum of f.get(key, 0.0)
\* divided by the length of the list
average_features(features_list) ==
    [k \in KeySet |->
        LET RECURSIVE total(_)
            total(i) == IF i > Len(features_list) THEN RZero
                        ELSE RAdd(Get(features_list[i], k, RZero), total(i + 1))
        IN RDiv(total(1), <<Len(features_list), 1>>)]

\* ------------------------------------------------------- genre similarity
\* a genre is a string: a sequence of character codes, 1..29 lower case,
\* 31..59 the same letters in upper case
\* (r 1, o 2, c 3, k 4, p 5, j 6, a 7, z 8, space 9, e 10, l 11, t 12, n 13, i 14, d 15)
Lower(g) == [i \in DOMAIN g |-> IF g[i] > 30 THEN g[i] - 30 ELSE g[i]]
\* Python's `a in b` on strings
IsSubstring(a, b) ==
    \E k \in 0..(Len(b) - Len(a)) : \A i \in 1..Len(a) : b[k + i] = a[i]
InList(x, list) == \E i \in DOMAIN list : list[i] = x
LowerAll(genres) == [i \in DOMAIN genres |-> Lower(genres[i])]

RECURSIVE PartialPoints(_, _, _)
\* the inner loop giving up after the target genre at j, matching or not
PartialPointsFirstOnly(source_genre, target_lower, j) ==
    IF j > Len(target_lower) THEN RZero
    ELSE IF \/ IsSubstring(source_genre, target_lower[j])
            \/ IsSubstring(target_lower[j], source_genre)
    THEN RHalf
    ELSE RZero

\* `for target_genre in target_lower` from position j on: 1/2 at the first
\* partial match, where the loop breaks, 0 when the list ends without one
PartialPoints(source_genre, target_lower, j) ==
    IF j > Len(target_lower) THEN RZero
    ELSE IF \/ IsSubstring(source_genre, target_lower[j])
            \/ IsSubstring(target_lower[j], source_genre)
    THEN RHalf
    ELSE PartialPoints(source_genre, target_lower, j + 1)

\* 1/2 for every partial match, the inner loop never breaking
GenrePointsEveryPartial(source_genre, target_lower) ==
    IF InList(source_genre, target_lower) THEN ROne
    ELSE LET hits == {j \in DOMAIN target_lower :
                         \/ IsSubstring(source_genre, target_lower[j])
                         \/ IsSubstring(target_lower[j], source_genre)}
         IN <<Cardinality(hits), 2>>

\* the points one source genre earns: 1 for an exact match, else the points
\* of the inner loop
GenrePoints(source_genre, target_lower) ==
    IF InList(source_genre, target_lower) THEN ROne
    ELSE PartialPoints(source_genre, target_lower, 1)

calculate_genre_similarity(source_genres_, target_genres_) ==
    IF source_genres_ = <<>> \/ target_genres_ = <<>> THEN RZero
    ELSE LET source_lower == LowerAll(source_genres_)
             target_lower == LowerAll(target_genres_)
             RECURSIVE total_score(_)
             total_score(i) == IF i > Len(source_lower) THEN RZero
                               ELSE RAdd(GenrePoints(source_lower[i], target_lower),
                                         total_score(i + 1))
         IN RMin(RDiv(total_score(1), <<Len(source_lower), 1>>), ROne)

\* list(set(xs)): the distinct elements of xs in some order
Range(seq) == {seq[i] : i \in DOMAIN seq}
Orderings(S) == {o \in [1..Cardinality(S) -> S] : Range(o) = S}
\* the list as it is, duplicates kept
ListKept(xs) == {xs}
ListOfSet(xs) == Orderings(Range(xs))

\* ------------------------------------------------- handle_spotify_error
\* every HTTP status reported alike
handle_spotify_error_unclassified(e) ==
    IF e.type = "HTTPStatusError"
    THEN <<"Error: Spotify API request failed with status ", ToString(e.status)>>
    ELSE IF e.type = "TimeoutException"
    THEN <<"Error: Request timed out. Please try again.">>
    ELSE IF e.type = "ValueError"
    THEN <<"Error: ", e.msg>>
    ELSE <<"Error: Unexpected error occurred: ", e.type, " - ", e.msg>>

\* the message is a sequence of text fragments
handle_spotify_error(e) ==
    IF e.type = "HTTPStatusError"
    THEN CASE e.status = 401 -> <<"Error: Authentication failed. Please check your SPOTIFY_ACCESS_TOKEN is valid and not expired. You may need to refresh your token.">>
           [] e.status = 403 -> <<"Error: Permission denied. Ensure your access token has the required scopes: playlist-modify-public, playlist-modify-private, playlist-read-private.">>
           [] e.status = 404 -> <<"Error: Resource not found. Please check the ID is correct.">>
           [] e.status = 429 -> <<"Error: Rate limit exceeded. Please wait before making more requests.">>
           [] OTHER -> <<"Error: Spotify API request failed with status ", ToString(e.status)>>
    ELSE IF e.type = "TimeoutException"
    THEN <<"Error: Request timed out. Please try again.">>
    ELSE IF e.type = "ValueError"
    THEN <<"Error: ", e.msg>>
    ELSE <<"Error: Unexpected error occurred: ", e.type, " - ", e.msg>>

\* ------------------------------------------------------ service data
\* an audio-features object: all nine keys, energy e and danceability d
Feat(e, d) ==
    [k \in KeySet |->
        CASE k = "energy" -> e
          [] k = "danceability" -> d
          [] k = "loudness" -> <<-30, 1>>
          [] k = "tempo" -> <<120, 1>>
          [] OTHER -> RZero]
\* the audio features of the catalogue's tracks
FeaturesOf(id) ==
    CASE id = 1 -> Feat(ROne, ROne)
      [] id = 2 -> Feat(ROne, RZero)
      [] OTHER -> Feat(RZero, RZero)

\* genres: "Rock", "rock pop", "jazz", "rock", "pop", "electronic", "electronic dance"
Rock == <<31, 2, 3, 4>>
RockPop == <<1, 2, 3, 4, 9, 5, 2, 5>>
Jazz == <<6, 7, 8, 8>>
RockLower == <<1, 2, 3, 4>>
Pop == <<5, 2, 5>>
Electronic == <<10, 11, 10, 3, 12, 1, 2, 13, 14, 3>>
ElectronicDance == Electronic \o <<9, 15, 7, 13, 3, 10>>
Genres == {Rock, RockPop, Jazz, RockLower, Pop, Electronic, ElectronicDance}
\* the genres of the catalogue's artists
GenresOf(artist) == IF artist = 1 THEN <<Rock>> ELSE <<RockPop>>

NewPlaylistIds == {6, 7}
UserId == 9

\* ------------------------------------------ get_audio_features_for_tracks
BATCH == 100
NumBatches(ids) == (Len(ids) + BATCH - 1) \div BATCH
\* a batch that stops one id short of the next one
BatchShort(ids, b) == SubSeq(ids, (b - 1) * BATCH + 1, Min(b * BATCH - 1, Len(ids)))

\* track_ids[i : i + 100] for the b-th value of i
Batch(ids, b) == SubSeq(ids, (b - 1) * BATCH + 1, Min(b * BATCH, Len(ids)))

\* the ways the service can answer one get_audio_features_for_tracks call:
\* which batch requests succeed and which ids have features
FeatureAnswers(ids) ==
    {[ok |-> ok, feat |-> [id \in avail |-> FeaturesOf(id)]] :
        ok \in [1..NumBatches(ids) -> BOOLEAN], avail \in SUBSET Range(ids)}

RECURSIVE FeatureCalls(_, _, _)
\* the requests of the call: one per batch and, for a failed batch, one per id of it
FeatureCalls(ids, ok, b) ==
    IF b > NumBatches(ids) THEN <<>>
    ELSE <<Call("GET audio-features?ids=", None, 0, 0, Batch(ids, b))>>
         \o (IF ok[b] THEN <<>>
             ELSE [i \in 1..Len(Batch(ids, b)) |->
                     Call("GET audio-features/{id}", Batch(ids, b)[i], 0, 0, <<>>)])
         \o FeatureCalls(ids, ok, b + 1)

\* features_map: a batch answer lists null for an unavailable track, the
\* single fetch of the fallback fails for it; either way the id gets no entry
FeaturesMap(ids, answer) ==
    [id \in Range(ids) \cap DOMAIN answer.feat |-> answer.feat[id]]

RECURSIVE ValuesOf(_, _)
\* list(features_map.values())
ValuesOf(map, keys) ==
    IF keys = {} THEN <<>>
    ELSE LET k == CHOOSE x \in keys : \A y \in keys : x <= y
         IN <<map[k]>> \o ValuesOf(map, keys \ {k})

\* ------------------------------------------------------- get_track_genres
\* the ways the service can answer the artist fetches of one call: per artist
\* a failure or the artist with its genre list
ArtistAnswers(artists) ==
    {[a \in artists |-> [ok |-> a \in up, genres |-> GenresOf(a)]] : up \in SUBSET artists}

RECURSIVE AllGenres(_, _, _)
\* all_genres after the loop over track["artists"]: failed fetches are skipped
AllGenres(artists, answer, i) ==
    IF i > Len(artists) THEN <<>>
    ELSE (IF answer[artists[i]].ok THEN answer[artists[i]].genres ELSE <<>>)
         \o AllGenres(artists, answer, i + 1)

\* the requests of get_track_genres: one per artist of the track
GenreCalls(track) ==
    [i \in 1..Len(track.artists) |-> Call("GET artists/{id}", track.artists[i], 0, 0, <<>>)]

\* the lists get_track_genres can return: list(set(all_genres))
get_track_genres(track, answer) == ListOfSet(AllGenres(track.artists, answer, 1))

\* --------------------------------------------- spotify_find_similar_tracks
RETURN_TRACKS == "return_tracks"
CREATE_PLAYLIST == "create_playlist"
ADD_TO_PLAYLIST == "add_to_playlist"
SimilarityAction == {RETURN_TRACKS, CREATE_PLAYLIST, ADD_TO_PLAYLIST}
GENRE_MATCH == "genre_match"
\* the strategies of the requests explored
Strategies == {"energy_match", "manhattan", GENRE_MATCH}
\* min_similarity = None
NoMin == <<-1, 1>>

\* FindSimilarTracksInput (response_format only selects the rendering and
\* weights is read by the weighted strategy alone: both are left out, the
\* requests explored giving no weights)
AllParams ==
    [track_id : {None, 1}, artist_id : {None, 1}, playlist_id : {None, 1},
     strategy : Strategies, scope : SearchScope, scope_id : {None, 1},
     limit : 1..MaxLimit, min_similarity : {NoMin, ROne},
     action : SimilarityAction, playlist_name : {None, 1},
     target_playlist_id : {None, 5}]
\* the requests explored: an optional field is given only with the scope or
\* the action that reads it
ParamSpace ==
    {p \in AllParams :
        /\ p.scope_id # None => p.scope # CATALOG
        /\ p.playlist_name # None => p.action = CREATE_PLAYLIST
        /\ p.target_playlist_id # None => p.action = ADD_TO_PLAYLIST}

\* (exc: the exception the handler caught, if any)
NoResult == [kind |-> "none", text |-> <<>>, playlist_id |-> None, tracks |-> <<>>,
             tracks_added |-> 0, exc |-> NoExc]
\* a returned "Error: ..." string
ErrorResult(text) == [NoResult EXCEPT !.kind = "error", !.text = text]
NoMatches == [NoResult EXCEPT !.kind = "no_matches",
                              !.text = <<"No similar tracks found matching the criteria.">>]

Return(r) ==
    /\ pc' = "done"
    /\ result' = r

\* `except Exception as e: return handle_spotify_error(e)`
Except(e) == Return([ErrorResult(handle_spotify_error(e)) EXCEPT !.exc = e])

\* the validation with the genre_match / catalog check left to a later step
ValidateGenreLate ==
    /\ pc = "start"
    /\ UNCHANGED <<fn_vars, features_map, target_genres, params, source_features, source_genres, candidate_tracks, idx, scored,
                   pre_sort, similar_tracks, playlist_data, calls, gc_vars>>
    /\ IF params.track_id = None /\ params.artist_id = None /\ params.playlist_id = None
       THEN Return(ErrorResult(<<"Error: At least one of track_id, artist_id, or playlist_id must be provided.">>))
       ELSE IF params.scope # CATALOG /\ params.scope_id = None
       THEN Return(ErrorResult(<<"Error: scope_id is required for scope '", params.scope, "'">>))
       ELSE IF params.action = CREATE_PLAYLIST /\ params.playlist_name = None
       THEN Return(ErrorResult(<<"Error: playlist_name is required for 'create_playlist' action">>))
       ELSE IF params.action = ADD_TO_PLAYLIST /\ params.target_playlist_id = None
       THEN Return(ErrorResult(<<"Error: target_playlist_id is required for 'add_to_playlist' action">>))
       ELSE pc' = "source" /\ UNCHANGED result

\* the validation of the request, up to the first await
Validate ==
    /\ pc = "start"
    /\ UNCHANGED <<fn_vars, features_map, target_genres, params, source_features, source_genres, candidate_tracks, idx, scored,
                   pre_sort, similar_tracks, playlist_data, calls, gc_vars>>
    /\ IF params.track_id = None /\ params.artist_id = None /\ params.playlist_id = None
       THEN Return(ErrorResult(<<"Error: At least one of track_id, artist_id, or playlist_id must be provided.">>))
       ELSE IF params.scope # CATALOG /\ params.scope_id = None
       THEN Return(ErrorResult(<<"Error: scope_id is required for scope '", params.scope, "'">>))
       ELSE IF params.action = CREATE_PLAYLIST /\ params.playlist_name = None
       THEN Return(ErrorResult(<<"Error: playlist_name is required for 'create_playlist' action">>))
       ELSE IF params.action = ADD_TO_PLAYLIST /\ params.target_playlist_id = None
       THEN Return(ErrorResult(<<"Error: target_playlist_id is required for 'add_to_playlist' action">>))
       ELSE IF params.strategy = GENRE_MATCH /\ params.scope = CATALOG
       THEN Return(ErrorResult(<<"Error: GENRE_MATCH strategy requires a specific scope (playlist, artist, album, or saved_tracks), not catalog">>))
       ELSE pc' = "source" /\ UNCHANGED result

RECURSIVE ConcatMap(_, _, _)
\* f(seq[i]) \o f(seq[i+1]) \o ...
ConcatMap(f(_), seq, i) ==
    IF i > Len(seq) THEN <<>> ELSE f(seq[i]) \o ConcatMap(f, seq, i + 1)

ArtistsOn(trks) == UNION {Range(trks[i].artists) : i \in DOMAIN trks}
Ids(trks) == [i \in DOMAIN trks |-> trks[i].id]

\* the first page of the playlist a request names as source
SourcePages(n) == SeqsUpTo(Tracks \cup {NoTrack}, Min(n, MaxSourceTracks))

\* get_source_genres returned `genres`, and the handler goes on whatever they are
SourceGenresUnchecked(genres, issued) ==
    /\ calls' = calls \o issued
    /\ source_genres' = genres
    /\ pc' = "collect"
    /\ UNCHANGED result

\* get_source_genres returned `genres` after issuing `issued`; the handler's
\* `if not source_genres` follows
SourceGenresResolved(genres, issued) ==
    /\ calls' = calls \o issued
    /\ source_genres' = genres
    /\ IF genres = <<>>
       THEN Return(ErrorResult(<<"Error: No genres found for the source track/artist/playlist">>))
       ELSE pc' = "collect" /\ UNCHANGED result

\* a request of the source resolution failed: the exception reaches the handler
SourceFailed(issued) ==
    /\ calls' = calls \o issued
    /\ \E e \in ServiceFailures : Except(e)

\* get_source_genres(track_id, artist_id, playlist_id) and the empty check
GetSourceGenres ==
    /\ pc = "source"
    /\ params.strategy = GENRE_MATCH
    /\ UNCHANGED <<fn_vars, features_map, target_genres, params, source_features, candidate_tracks, idx, scored, pre_sort,
                   similar_tracks, playlist_data, gc_vars>>
    /\ IF params.track_id # None
       THEN LET first == <<Call("GET tracks/{id}", params.track_id, 0, 0, <<>>)>>
                track_data == TrackObj(params.track_id)
            IN \/ SourceFailed(first) /\ UNCHANGED source_genres
               \/ \E answer \in ArtistAnswers(Range(track_data.artists)) :
                  \E genres \in get_track_genres(track_data, answer) :
                     SourceGenresResolved(genres, first \o GenreCalls(track_data))
       ELSE IF params.artist_id # None
       THEN LET first == <<Call("GET artists/{id}", params.artist_id, 0, 0, <<>>)>>
            IN \/ SourceFailed(first) /\ UNCHANGED source_genres
               \/ SourceGenresResolved(GenresOf(params.artist_id), first)
       ELSE IF params.playlist_id # None
       THEN LET first == <<Call("GET playlists/{id}/tracks", params.playlist_id, 20, 0, <<>>)>>
            IN \/ SourceFailed(first) /\ UNCHANGED source_genres
               \/ \E items \in SourcePages(20) :
                  LET trks == SelectSeq(items, HasTrack) IN
                  \E answer \in ArtistAnswers(ArtistsOn(trks)) :
                  LET genres_of(track) == AllGenres(track.artists, answer, 1) IN
                  \E genres \in ListOfSet(ConcatMap(genres_of, trks, 1)) :
                     SourceGenresResolved(genres, first \o ConcatMap(GenreCalls, trks, 1))
       ELSE /\ Except(ValueError("At least one of track_id, artist_id, or playlist_id must be provided"))
            /\ UNCHANGED <<calls, source_genres>>

\* get_source_features returned `features`
SourceFeaturesResolved(features, issued) ==
    /\ calls' = calls \o issued
    /\ source_features' = features
    /\ pc' = "collect"
    /\ UNCHANGED result

\* the tail of the artist and playlist branches of get_source_features:
\* the features of `trks` are fetched and averaged
SourceAverage(trks, first) ==
    \E answer \in FeatureAnswers(Ids(trks)) :
        LET fmap == FeaturesMap(Ids(trks), answer)
            issued == first \o FeatureCalls(Ids(trks), answer.ok, 1)
            features_list == ValuesOf(fmap, DOMAIN fmap)
        IN IF features_list = <<>>
           THEN /\ calls' = calls \o issued
                /\ Except(ValueError("Cannot average empty features list"))
                /\ UNCHANGED source_features
           ELSE SourceFeaturesResolved(average_features(features_list), issued)

\* get_source_features(track_id, artist_id, playlist_id)
GetSourceFeatures ==
    /\ pc = "source"
    /\ params.strategy # GENRE_MATCH
    /\ UNCHANGED <<fn_vars, features_map, target_genres, params, source_genres, candidate_tracks, idx, scored, pre_sort,
                   similar_tracks, playlist_data, gc_vars>>
    /\ IF params.track_id # None
       THEN LET first == <<Call("GET audio-features/{id}", params.track_id, 0, 0, <<>>)>>
            IN \/ SourceFailed(first) /\ UNCHANGED source_features
               \/ SourceFeaturesResolved(FeaturesOf(params.track_id), first)
       ELSE IF params.artist_id # None
       THEN LET first == <<Call("GET artists/{id}/top-tracks", params.artist_id, 0, 0, <<>>)>>
            IN \/ SourceFailed(first) /\ UNCHANGED source_features
               \/ \E top \in SeqsUpTo(Tracks, MaxSourceTracks) : SourceAverage(Take(top, 10), first)
       ELSE IF params.playlist_id # None
       THEN LET first == <<Call("GET playlists/{id}/tracks", params.playlist_id, 20, 0, <<>>)>>
            IN \/ SourceFailed(first) /\ UNCHANGED source_features
               \/ \E items \in SourcePages(20) : SourceAverage(SelectSeq(items, HasTrack), first)
       ELSE /\ Except(ValueError("At least one of track_id, artist_id, or playlist_id must be provided"))
            /\ UNCHANGED <<calls, source_features>>

\* the six targets taken from the normalized source features
RecommendationTargetsNormalized(features) ==
    <<Get(normalize_audio_features(features), "acousticness", NoMin),
      Get(normalize_audio_features(features), "danceability", NoMin),
      Get(normalize_audio_features(features), "energy", NoMin),
      Get(normalize_audio_features(features), "instrumentalness", NoMin),
      Get(normalize_audio_features(features), "valence", NoMin),
      Get(normalize_audio_features(features), "tempo", NoMin)>>

\* seed_params["target_..."] = source_features.get(...): the six targets
\* (NoMin stands for the None of an absent key)
RecommendationTargets(features) ==
    <<Get(features, "acousticness", NoMin),
      Get(features, "danceability", NoMin),
      Get(features, "energy", NoMin),
      Get(features, "instrumentalness", NoMin),
      Get(features, "valence", NoMin),
      Get(features, "tempo", NoMin)>>

\* the seed chosen with the artist id looked at first
RecommendationSeedArtistFirst(p) ==
    IF p.artist_id # None THEN [key |-> "seed_artists", id |-> p.artist_id]
    ELSE IF p.track_id # None THEN [key |-> "seed_tracks", id |-> p.track_id]
    ELSE [key |-> "no seed", id |-> None]

\* `if params.track_id: seed_params["seed_tracks"] = ...
\*  elif params.artist_id: seed_params["seed_artists"] = ...`
RecommendationSeed(p) ==
    IF p.track_id # None THEN [key |-> "seed_tracks", id |-> p.track_id]
    ELSE IF p.artist_id # None THEN [key |-> "seed_artists", id |-> p.artist_id]
    ELSE [key |-> "no seed", id |-> None]

\* the catalog branch: one recommendation query, seeded by the track id or
\* else the artist id, with six source features as targets
Recommendations ==
    /\ pc = "collect"
    /\ params.strategy # GENRE_MATCH
    /\ params.scope = CATALOG
    /\ LET seed == RecommendationSeed(params).key
           seed_id == RecommendationSeed(params).id
           targets == RecommendationTargets(source_features)
       IN calls' = Append(calls, Call("GET recommendations", seed_id, params.limit, 0,
                                      <<seed>> \o targets))
    /\ \/ \E e \in ServiceFailures : Except(e) /\ UNCHANGED candidate_tracks
       \/ \E recs \in SeqsUpTo(Tracks, Min(params.limit, MaxListing)) :
             /\ candidate_tracks' = recs
             /\ pc' = "score_audio"
             /\ UNCHANGED result
    /\ UNCHANGED <<fn_vars, features_map, target_genres, params, source_features, source_genres, idx, scored, pre_sort,
                   similar_tracks, playlist_data, gc_vars>>

\* the handler calls get_candidate_tracks(params.scope, params.scope_id, limit=500)
StartCollect ==
    /\ pc = "collect"
    /\ ~(params.strategy # GENRE_MATCH /\ params.scope = CATALOG)
    /\ pc' = "collecting"
    /\ gc_pc' = "call"
    /\ gc_args' = [scope |-> params.scope, scope_id |-> params.scope_id, limit |-> POOL_LIMIT]
    /\ UNCHANGED <<fn_vars, features_map, target_genres, params, result, source_features, source_genres, candidate_tracks, idx,
                   scored, pre_sort, similar_tracks, playlist_data, calls, tracks, offset,
                   gc_albums, gc_items, gc_ret>>

\* get_candidate_tracks came back to the handler, with a list or an exception
CollectDone ==
    /\ pc = "collecting"
    /\ gc_pc = "done"
    /\ gc_pc' = "idle"
    /\ tracks' = <<>>
    /\ offset' = 0
    /\ gc_albums' = <<>>
    /\ gc_items' = <<>>
    /\ gc_ret' = GcRunning
    /\ IF gc_ret.kind = "raise"
       THEN Except(gc_ret.exc) /\ UNCHANGED candidate_tracks
       ELSE /\ candidate_tracks' = gc_ret.tracks
            /\ pc' = IF params.strategy # GENRE_MATCH THEN "score_audio"
                     ELSE IF gc_ret.tracks = <<>> THEN "rank" ELSE "score_genre"
            /\ UNCHANGED result
    /\ UNCHANGED <<fn_vars, features_map, target_genres, params, source_features, source_genres, idx, scored, pre_sort,
                   similar_tracks, playlist_data, calls, gc_args>>

PassesFilterStrict(similarity, min_similarity) ==
    min_similarity = NoMin \/ RLess(min_similarity, similarity)

\* `params.min_similarity is None or similarity >= params.min_similarity`
PassesFilter(similarity, min_similarity) ==
    min_similarity = NoMin \/ RLeq(min_similarity, similarity)

\* an element of similar_tracks; pos is the place of the candidate in
\* candidate_tracks and stands for the identity of the dict
Entry(track, similarity, pos) == [track |-> track, similarity |-> similarity, pos |-> pos]

KeepFiltered(entries) ==
    SelectSeq(entries, LAMBDA e : PassesFilter(e.similarity, params.min_similarity))

\* one iteration of `for track in candidate_tracks` of the genre branch
ScoreGenreStep ==
    /\ pc = "score_genre"
    /\ LET track == candidate_tracks[idx + 1] IN
       /\ calls' = calls \o GenreCalls(track)
       /\ \E answer \in ArtistAnswers(Range(track.artists)) :
          \E genres \in get_track_genres(track, answer) :
             /\ target_genres' = Append(target_genres, genres)
             /\ IF genres # <<>>
                THEN LET e == Entry(track, calculate_genre_similarity(source_genres, genres),
                                    idx + 1)
                     IN /\ scored' = Append(scored, e)
                        /\ similar_tracks' = similar_tracks \o KeepFiltered(<<e>>)
                ELSE UNCHANGED <<scored, similar_tracks>>
    /\ idx' = idx + 1
    /\ pc' = IF idx + 1 >= Len(candidate_tracks) THEN "rank" ELSE "score_genre"
    /\ UNCHANGED <<fn_vars, features_map, params, result, source_features, source_genres, candidate_tracks, pre_sort,
                   playlist_data, gc_vars>>

\* every candidate scored, one without features with score 0
ScoredAudioZeroFilled(candidates, fmap) ==
    [i \in DOMAIN candidates |->
        Entry(candidates[i],
              IF candidates[i].id \in DOMAIN fmap
              THEN calculate_similarity(source_features, fmap[candidates[i].id], params.strategy,
                                        NoWeights)
              ELSE RZero,
              i)]

\* the candidates that have features, each with its score, in candidate order
ScoredAudio(candidates, fmap) ==
    LET places == SelectSeq([i \in DOMAIN candidates |-> i],
                            LAMBDA i : candidates[i].id \in DOMAIN fmap)
    IN [j \in DOMAIN places |->
          Entry(candidates[places[j]],
                calculate_similarity(source_features, fmap[candidates[places[j]].id],
                                     params.strategy, NoWeights),
                places[j])]

\* the audio branch after the candidates are known: the features are fetched
\* and every candidate that has features is scored and filtered
ScoreAudio ==
    /\ pc = "score_audio"
    /\ LET candidate_ids == Ids(candidate_tracks) IN
       \E answer \in FeatureAnswers(candidate_ids) :
          LET fetched == FeaturesMap(candidate_ids, answer) IN
          /\ calls' = calls \o FeatureCalls(candidate_ids, answer.ok, 1)
          /\ features_map' = fetched
          /\ scored' = ScoredAudio(candidate_tracks, fetched)
          /\ similar_tracks' = KeepFiltered(ScoredAudio(candidate_tracks, fetched))
    /\ pc' = "rank"
    /\ UNCHANGED <<fn_vars, target_genres, params, result, source_features, source_genres, candidate_tracks, idx,
                   pre_sort, playlist_data, gc_vars>>

\* x goes behind every element whose score is at least its own
InsertDescUnstable(sorted, x) ==
    LET before == SelectSeq(sorted, LAMBDA y : RLess(x.similarity, y.similarity))
        after == SelectSeq(sorted, LAMBDA y : RLeq(y.similarity, x.similarity))
    IN before \o <<x>> \o after

InsertDesc(sorted, x) ==
    LET before == SelectSeq(sorted, LAMBDA y : RLeq(x.similarity, y.similarity))
        after == SelectSeq(sorted, LAMBDA y : RLess(y.similarity, x.similarity))
    IN before \o <<x>> \o after

\* list[lo], ..., list[hi] inserted into acc one after another, in list order
RECURSIVE SortFrom(_, _, _, _)
SortFrom(list, lo, hi, acc) ==
    IF lo > hi THEN acc
    ELSE IF lo = hi THEN InsertDesc(acc, list[lo])
    ELSE LET mid == (lo + hi) \div 2
             lower == SortFrom(list, lo, mid, acc)
         IN  \* the lower half is inserted before the upper half is taken
             IF Len(lower) = Len(acc) + (mid - lo + 1)
             THEN SortFrom(list, mid + 1, hi, lower)
             ELSE lower

\* similar_tracks.sort(key=lambda x: x["similarity"], reverse=True): list.sort
\* is stable, also with reverse=True
SortBySimilarity(list) == SortFrom(list, 1, Len(list), <<>>)

TruncateNone(list, limit) == list

\* similar_tracks[: params.limit]
Truncate(list, limit) == Take(list, limit)

TrackUrisReversed(list) == [i \in DOMAIN list |-> list[Len(list) + 1 - i].track.uri]

\* [item["track"]["uri"] for item in similar_tracks]
TrackUris(list) == [i \in DOMAIN list |-> list[i].track.uri]

DispatchUnchecked(limited) ==
    IF params.action = CREATE_PLAYLIST THEN pc' = "create_user" /\ UNCHANGED result
    ELSE IF params.action = ADD_TO_PLAYLIST THEN pc' = "add" /\ UNCHANGED result
    ELSE Return([NoResult EXCEPT !.kind = "tracks", !.tracks = limited])

\* `if not similar_tracks: return ...` and the branch on params.action
Dispatch(limited) ==
    IF limited = <<>> THEN Return(NoMatches)
    ELSE IF params.action = CREATE_PLAYLIST THEN pc' = "create_user" /\ UNCHANGED result
    ELSE IF params.action = ADD_TO_PLAYLIST THEN pc' = "add" /\ UNCHANGED result
    ELSE Return([NoResult EXCEPT !.kind = "tracks", !.tracks = limited])

\* the sort and the dispatch with the truncation left out
RankUntruncated ==
    /\ pc = "rank"
    /\ pre_sort' = similar_tracks
    /\ similar_tracks' = SortBySimilarity(similar_tracks)
    /\ Dispatch(SortBySimilarity(similar_tracks))
    /\ UNCHANGED <<fn_vars, features_map, target_genres, params, source_features, source_genres, candidate_tracks, idx, scored,
                   playlist_data, calls, gc_vars>>

\* sort, truncate, the empty check, and the return of the return_tracks action
Rank ==
    /\ pc = "rank"
    /\ pre_sort' = similar_tracks
    /\ similar_tracks' = Truncate(SortBySimilarity(similar_tracks), params.limit)
    /\ Dispatch(Truncate(SortBySimilarity(similar_tracks), params.limit))
    /\ UNCHANGED <<fn_vars, features_map, target_genres, params, source_features, source_genres, candidate_tracks, idx, scored,
                   playlist_data, calls, gc_vars>>

\* create_playlist_helper: `if collaborative and public: raise ValueError`
CreateRejectedNever(public, collaborative) == FALSE
\* `if collaborative and public: raise ValueError(...)`
CreateRejected(public, collaborative) == collaborative /\ public
\* the JSON payload of the creation request
CreatePayload(name, description, public, collaborative) ==
    IF description # None
    THEN [name |-> name, public |-> public, collaborative |-> collaborative,
          description |-> description]
    ELSE [name |-> name, public |-> public, collaborative |-> collaborative]

\* create_playlist_helper(name, description, public=False), first request
CreateUser ==
    /\ pc = "create_user"
    /\ IF CreateRejected(FALSE, FALSE)
       THEN /\ Except(ValueError("A playlist cannot be both collaborative and public"))
            /\ UNCHANGED calls
       ELSE /\ calls' = Append(calls, Call("GET me", None, 0, 0, <<>>))
            /\ \/ \E e \in ServiceFailures : Except(e)
               \/ pc' = "create_post" /\ UNCHANGED result
    /\ UNCHANGED <<fn_vars, features_map, target_genres, params, source_features, source_genres, candidate_tracks, idx, scored,
                   pre_sort, similar_tracks, playlist_data, gc_vars>>

\* create_playlist_helper, second request: the playlist is created
CreatePost ==
    /\ pc = "create_post"
    /\ calls' = Append(calls, Call("POST users/{id}/playlists", UserId, 0, 0,
                                   <<params.playlist_name>>))
    /\ \/ \E e \in ServiceFailures : Except(e) /\ UNCHANGED playlist_data
       \/ \E id \in NewPlaylistIds :
             /\ playlist_data' = id
             /\ pc' = "add"
             /\ UNCHANGED result
    /\ UNCHANGED <<fn_vars, features_map, target_genres, params, source_features, source_genres, candidate_tracks, idx, scored,
                   pre_sort, similar_tracks, gc_vars>>

\* the tracks are added and the playlist is read back
AddTracksThenRead ==
    /\ pc = "add"
    /\ LET playlist_id == IF params.action = CREATE_PLAYLIST THEN playlist_data
                          ELSE params.target_playlist_id
           track_uris == TrackUris(similar_tracks)
       IN /\ calls' = calls \o <<Call("POST playlists/{id}/tracks", playlist_id, 0, 0, track_uris),
                                  Call("GET playlists/{id}", playlist_id, 0, 0, <<>>)>>
          /\ \/ \E e \in ServiceFailures : Except(e)
             \/ Return([NoResult EXCEPT !.kind = params.action, !.playlist_id = playlist_id,
                                        !.tracks_added = Len(track_uris)])
    /\ UNCHANGED <<fn_vars, features_map, target_genres, params, source_features, source_genres, candidate_tracks, idx, scored,
                   pre_sort, similar_tracks, playlist_data, gc_vars>>

\* add_tracks_to_playlist_helper(playlist_id, track_uris) and the success result
AddTracks ==
    /\ pc = "add"
    /\ LET playlist_id == IF params.action = CREATE_PLAYLIST THEN playlist_data
                          ELSE params.target_playlist_id
           track_uris == TrackUris(similar_tracks)
       IN /\ calls' = Append(calls, Call("POST playlists/{id}/tracks", playlist_id, 0, 0,
                                         track_uris))
          /\ \/ \E e \in ServiceFailures : Except(e)
             \/ Return([NoResult EXCEPT !.kind = params.action, !.playlist_id = playlist_id,
                                        !.tracks_added = Len(track_uris)])
    /\ UNCHANGED <<fn_vars, features_map, target_genres, params, source_features, source_genres, candidate_tracks, idx, scored,
                   pre_sort, similar_tracks, playlist_data, gc_vars>>

\* no function is called on its own
FnIdle ==
    /\ fn_pc = "idle"
    /\ fn_args = <<>>
    /\ fn_locals = <<>>
    /\ fn_ret = <<>>

Init ==
    /\ params \in ParamSpace
    /\ pc = "start"
    /\ result = NoResult
    /\ source_features = <<>>
    /\ source_genres = <<>>
    /\ candidate_tracks = <<>>
    /\ idx = 0
    /\ scored = <<>>
    /\ pre_sort = <<>>
    /\ similar_tracks = <<>>
    /\ playlist_data = None
    /\ features_map = <<>>
    /\ target_genres = <<>>
    /\ FnIdle
    /\ calls = <<>>
    /\ gc_pc = "idle"
    /\ gc_args = [scope |-> CATALOG, scope_id |-> None, limit |-> 0]
    /\ tracks = <<>>
    /\ offset = 0
    /\ gc_albums = <<>>
    /\ gc_items = <<>>
    /\ gc_ret = GcRunning

Next ==
    \/ Validate
    \/ GetSourceGenres
    \/ GetSourceFeatures
    \/ Recommendations
    \/ StartCollect
    \/ GcEnter
    \/ GcPlaylistPage
    \/ GcSavedPage
    \/ GcArtistTop
    \/ GcArtistAlbums
    \/ GcArtistAlbumTracks
    \/ GcArtistFull
    \/ GcAlbumList
    \/ GcAlbumFull
    \/ CollectDone
    \/ ScoreGenreStep
    \/ ScoreAudio
    \/ Rank
    \/ CreateUser
    \/ CreatePost
    \/ AddTracks

Spec == Init /\ [][Next]_vars

\* ------------------------- the source of a request naming several
\* requests whose three source identifiers differ from one another and from
\* every track and artist of the catalogue
SourceParams ==
    {p \in [track_id : {None, 1}, artist_id : {None, 8}, playlist_id : {None, 9},
            strategy : {"manhattan", GENRE_MATCH}, scope : {CATALOG, PLAYLIST},
            scope_id : {None, 1}, limit : 1..MaxLimit, min_similarity : {NoMin},
            action : {RETURN_TRACKS}, playlist_name : {None},
            target_playlist_id : {None}] :
        p.scope_id # None <=> p.scope # CATALOG}

InitSource ==
    /\ params \in SourceParams
    /\ pc = "start"
    /\ result = NoResult
    /\ source_features = <<>>
    /\ source_genres = <<>>
    /\ candidate_tracks = <<>>
    /\ idx = 0
    /\ scored = <<>>
    /\ pre_sort = <<>>
    /\ similar_tracks = <<>>
    /\ playlist_data = None
    /\ features_map = <<>>
    /\ target_genres = <<>>
    /\ FnIdle
    /\ calls = <<>>
    /\ gc_pc = "idle"
    /\ gc_args = [scope |-> CATALOG, scope_id |-> None, limit |-> 0]
    /\ tracks = <<>>
    /\ offset = 0
    /\ gc_albums = <<>>
    /\ gc_items = <<>>
    /\ gc_ret = GcRunning

\* the handler up to the collection of the candidates
SourceNext ==
    \/ Validate
    \/ GetSourceGenres
    \/ GetSourceFeatures
    \/ Recommendations

SpecSource == InitSource /\ [][SourceNext]_vars

\* ------------------------- get_candidate_tracks called on its own
\* the handler is not running
HandlerIdle ==
    /\ params = [track_id |-> None, artist_id |-> None, playlist_id |-> None,
                 strategy |-> "euclidean", scope |-> CATALOG, scope_id |-> None,
                 limit |-> 20, min_similarity |-> NoMin, action |-> "return_tracks",
                 playlist_name |-> None, target_playlist_id |-> None]
    /\ pc = "idle"
    /\ result = NoResult
    /\ source_features = <<>>
    /\ source_genres = <<>>
    /\ candidate_tracks = <<>>
    /\ idx = 0
    /\ scored = <<>>
    /\ pre_sort = <<>>
    /\ similar_tracks = <<>>
    /\ playlist_data = None
    /\ features_map = <<>>
    /\ target_genres = <<>>

GcIdle ==
    /\ tracks = <<>>
    /\ offset = 0
    /\ gc_albums = <<>>
    /\ gc_items = <<>>
    /\ gc_ret = GcRunning

InitCollect ==
    /\ HandlerIdle
    /\ FnIdle
    /\ calls = <<>>
    /\ gc_pc = "call"
    /\ gc_args \in [scope : SearchScope, scope_id : {None, 1}, limit : 0..MaxCollectLimit]
    /\ GcIdle

SpecCollect == InitCollect /\ [][GcNext]_vars

\* ------- spotify_find_similar_tracks from the ranking on, with a large pool
\* the numbers of candidates collected: up to the 500 the handler asks for
PoolSizes == {0, 1, 2, LIMIT_MAX + 1, POOL_LIMIT}
\* the limits explored, up to the largest FindSimilarTracksInput accepts
PoolLimits == {1, 2, LIMIT_MAX}
PoolParams ==
    {p \in [track_id : {1}, artist_id : {None}, playlist_id : {None},
            strategy : {"manhattan"}, scope : {PLAYLIST}, scope_id : {1},
            limit : PoolLimits, min_similarity : {NoMin, ROne},
            action : SimilarityAction, playlist_name : {None, 1},
            target_playlist_id : {None, 5}] :
        /\ p.playlist_name # None <=> p.action = CREATE_PLAYLIST
        /\ p.target_playlist_id # None <=> p.action = ADD_TO_PLAYLIST}

\* the handler where its audio branch has scored and filtered a playlist of n
\* tracks, all with features (the request log starts here)
InitPool ==
    /\ params \in PoolParams
    /\ pc = "rank"
    /\ result = NoResult
    /\ source_features = FeaturesOf(params.track_id)
    /\ source_genres = <<>>
    /\ \E n \in PoolSizes :
          /\ candidate_tracks = [i \in 1..n |-> TrackObj(i)]
          /\ features_map = [id \in 1..n |-> FeaturesOf(id)]
    /\ idx = 0
    /\ scored = ScoredAudio(candidate_tracks, features_map)
    /\ pre_sort = <<>>
    /\ similar_tracks = KeepFiltered(scored)
    /\ playlist_data = None
    /\ target_genres = <<>>
    /\ calls = <<>>
    /\ gc_pc = "idle"
    /\ gc_args = [scope |-> PLAYLIST, scope_id |-> params.scope_id, limit |-> POOL_LIMIT]
    /\ GcIdle
    /\ FnIdle

PoolNext == Rank \/ CreateUser \/ CreatePost \/ AddTracks

SpecPool == InitPool /\ [][PoolNext]_vars

\* ------------- get_candidate_tracks paging through one finite listing
MaxHoles == 3
\* a listing of n entries, entry i carrying track i, or no track where i is a
\* multiple of `every`
LongListing(n, every) ==
    [i \in 1..n |-> IF every > 0 /\ i % every = 0 THEN NoTrack ELSE TrackObj(i)]
Listings ==
    SeqsUpTo(Tracks \cup {NoTrack}, MaxListing)
        \cup {LongListing(n, every) : n \in {PAGE_SIZE, PAGE_SIZE + 1, 2 * PAGE_SIZE + 1},
                                      every \in {0, 1, MaxHoles}}
PagingLimits == {0, 1, 2, PAGE_SIZE - 1, PAGE_SIZE, PAGE_SIZE + 1, 2 * PAGE_SIZE + 1, POOL_LIMIT}

\* the service's answer to (limit n, offset off): that stretch of the listing,
\* empty at or past its end
ListedPages(n, off) ==
    {SubSeq(fn_args.listing, off + 1, Min(off + n, Len(fn_args.listing)))}

InitPaging ==
    /\ HandlerIdle
    /\ calls = <<>>
    /\ gc_pc = "call"
    /\ gc_args \in [scope : {PLAYLIST, SAVED_TRACKS}, scope_id : {None, 1}, limit : PagingLimits]
    /\ GcIdle
    /\ fn_pc = "idle"
    /\ fn_args \in [listing : Listings]
    /\ fn_locals = <<>>
    /\ fn_ret = <<>>

PgPlaylistPage ==
    PageLoopOver("playlist_page", "GET playlists/{id}/tracks", gc_args.scope_id, ListedPages)

PgSavedPage == PageLoopOver("saved_page", "GET me/tracks", None, ListedPages)

PgNext == GcEnter \/ PgPlaylistPage \/ PgSavedPage

SpecPaging == InitPaging /\ [][PgNext]_vars

\* the pagination loop is a sequential program: it always takes its next step
SpecPagingFair == SpecPaging /\ WF_vars(PgNext)

\* ------------------ get_candidate_tracks collecting one artist's tracks
MaxArtistTop == 3
MaxPerAlbum == 2
\* the artist's top tracks: tracks 1..k
ArtistTops == {[i \in 1..k |-> TrackObj(i)] : k \in 0..MaxArtistTop}
\* the artist's albums in the service's order: none, one, five, six or seven
ArtistAlbums == {[i \in 1..k |-> i] : k \in {0, 1, ALBUM_CAP, ALBUM_CAP + 1, ALBUM_CAP + 2}}
\* the track ids of each album (10 * album + position): every album full,
\* every album empty, or album a with a % 3 tracks
AlbumTrackIds(k, a) == [j \in 1..k |-> 10 * a + j]
ArtistAlbumTracks ==
    {[a \in 1..(ALBUM_CAP + 2) |-> AlbumTrackIds(MaxPerAlbum, a)],
     [a \in 1..(ALBUM_CAP + 2) |-> <<>>],
     [a \in 1..(ALBUM_CAP + 2) |-> AlbumTrackIds(a % (MaxPerAlbum + 1), a)]}
ArtistLimits == {0, 1, 2, MaxArtistTop, MaxArtistTop + 1, MaxArtistTop + MaxPerAlbum + 1,
                 POOL_LIMIT}

InitArtist ==
    /\ HandlerIdle
    /\ calls = <<>>
    /\ gc_pc = "call"
    /\ gc_args \in [scope : {ARTIST}, scope_id : {None, 1}, limit : ArtistLimits]
    /\ GcIdle
    /\ fn_pc = "idle"
    /\ fn_args \in [top : ArtistTops, albums : ArtistAlbums, album_tracks : ArtistAlbumTracks]
    /\ fn_locals = <<>>
    /\ fn_ret = <<>>

ArTop == GcArtistTopFrom({fn_args.top})
ArAlbums == GcArtistAlbumsFrom({fn_args.albums})
ArAlbumTracks == GcArtistAlbumTracksFrom({fn_args.album_tracks[Head(gc_albums)]})

ArNext == GcEnter \/ ArTop \/ ArAlbums \/ ArAlbumTracks \/ GcArtistFull

SpecArtist == InitArtist /\ [][ArNext]_vars

\* ------------------- get_audio_features_for_tracks called on its own
FnReturn(value) == [kind |-> "return", value |-> value]
FnRaise(e) == [kind |-> "raise", value |-> e]

\* the lengths of track_ids explored
FaLens == {0, 1, BATCH - 1, BATCH, BATCH + 1, 2 * BATCH, MaxIds}
\* the sets of tracks the service has no audio features for
FaNoFeatures(n) == {{}, {1} \cap (1..n), {n} \cap (1..n), {k \in 1..n : k % 2 = 0}}

\* features_map after `features_map[id] = features` for every id of `new`
WithFeatures(map, new) ==
    [id \in DOMAIN map \cup new |-> IF id \in DOMAIN map THEN map[id] ELSE FeaturesOf(id)]

\* one iteration of `for i in range(0, len(track_ids), 100)`: the batch
\* request, which fills the map or fails into the per-id fallback
FaBatch ==
    /\ fn_pc = "batch"
    /\ fn_locals.b <= NumBatches(fn_args.track_ids)
    /\ LET batch == Batch(fn_args.track_ids, fn_locals.b) IN
       /\ calls' = Append(calls, Call("GET audio-features?ids=", None, 0, 0, batch))
       /\ \/ /\ fn_locals' = [fn_locals EXCEPT
                    !.features_map = WithFeatures(@, Range(batch) \ fn_args.no_features),
                    !.ok = Append(@, TRUE),
                    !.b = @ + 1]
             /\ UNCHANGED fn_pc
          \/ /\ fn_locals' = [fn_locals EXCEPT !.ok = Append(@, FALSE), !.todo = batch]
             /\ fn_pc' = "single"
    /\ UNCHANGED <<h_vars, gc_vars, fn_args, fn_ret>>

\* one iteration of `for track_id in batch` of the fallback: a failed fetch is skipped
FaSingle ==
    /\ fn_pc = "single"
    /\ LET track_id == Head(fn_locals.todo)
           rest == Tail(fn_locals.todo)
       IN /\ calls' = Append(calls, Call("GET audio-features/{id}", track_id, 0, 0, <<>>))
          /\ fn_locals' = [fn_locals EXCEPT
                 !.features_map = IF track_id \in fn_args.no_features THEN @
                                  ELSE WithFeatures(@, {track_id}),
                 !.todo = rest,
                 !.b = IF rest = <<>> THEN @ + 1 ELSE @]
          /\ fn_pc' = IF rest = <<>> THEN "batch" ELSE "single"
    /\ UNCHANGED <<h_vars, gc_vars, fn_args, fn_ret>>

\* `return features_map`
FaReturn ==
    /\ fn_pc = "batch"
    /\ fn_locals.b > NumBatches(fn_args.track_ids)
    /\ fn_pc' = "done"
    /\ fn_ret' = FnReturn(fn_locals.features_map)
    /\ UNCHANGED <<h_vars, gc_vars, calls, fn_args, fn_locals>>

FaNext == FaBatch \/ FaSingle \/ FaReturn

\* get_candidate_tracks is not running
GcNotCalled ==
    /\ gc_pc = "idle"
    /\ gc_args = [scope |-> CATALOG, scope_id |-> None, limit |-> 0]
    /\ GcIdle

InitFeatures ==
    /\ HandlerIdle
    /\ GcNotCalled
    /\ calls = <<>>
    /\ fn_pc = "batch"
    /\ \E n \in FaLens : \E nf \in FaNoFeatures(n) :
          fn_args = [track_ids |-> [k \in 1..n |-> k], no_features |-> nf]
    /\ fn_locals = [features_map |-> <<>>, b |-> 1, todo |-> <<>>, ok |-> <<>>]
    /\ fn_ret = <<>>

SpecFeatures == InitFeatures /\ [][FaNext]_vars

\* ----------------------------- calculate_genre_similarity called on its own
\* a call of a function that issues no request
PureCall(args) ==
    /\ HandlerIdle
    /\ GcNotCalled
    /\ calls = <<>>
    /\ fn_pc = "call"
    /\ fn_args \in args
    /\ fn_locals = <<>>
    /\ fn_ret = <<>>

\* the function runs to its end
PureReturn(ret) ==
    /\ fn_pc = "call"
    /\ fn_pc' = "done"
    /\ fn_ret' = ret
    /\ UNCHANGED <<h_vars, gc_vars, calls, fn_args, fn_locals>>

InitGenre ==
    PureCall([source_genres : SeqsUpTo(Genres, MaxGenres),
              target_genres : SeqsUpTo(Genres, MaxGenres)])

GenreSimilarity ==
    PureReturn(FnReturn(calculate_genre_similarity(fn_args.source_genres, fn_args.target_genres)))

SpecGenre == InitGenre /\ [][GenreSimilarity]_vars

\* ------------------------------------ calculate_similarity called on its own
\* feature vectors with any of energy, loudness and tempo present
PartialFeatures ==
    UNION {[keys -> {RZero, RHalf, ROne, <<-30, 1>>, <<120, 1>>, <<200, 1>>}] :
              keys \in SUBSET {"energy", "loudness", "tempo"}}
FeatureVectors ==
    {f \in PartialFeatures :
        /\ "energy" \in DOMAIN f => f["energy"] \in {RZero, RHalf, ROne}
        /\ "loudness" \in DOMAIN f => f["loudness"] \in {<<-30, 1>>, RZero}
        /\ "tempo" \in DOMAIN f => f["tempo"] \in {<<120, 1>>, <<200, 1>>}}
\* FeatureWeights objects: every weight in [0, 10], 1.0 by default
FeatureWeights(energy, tempo) ==
    [k \in KeySet |-> CASE k = "energy" -> energy [] k = "tempo" -> tempo [] OTHER -> ROne]
WeightChoices ==
    {NoWeights, FeatureWeights(ROne, ROne), FeatureWeights(RZero, ROne),
     FeatureWeights(<<10, 1>>, <<1, 10>>)}

InitSimilarity ==
    PureCall({a \in [source_features : FeatureVectors, target_features : FeatureVectors,
                     strategy : {"euclidean", "weighted", "cosine", "manhattan"},
                     weights : WeightChoices] :
                 a.strategy # "weighted" => a.weights = NoWeights})

Similarity ==
    PureReturn(FnReturn(calculate_similarity(fn_args.source_features, fn_args.target_features,
                                             fn_args.strategy, fn_args.weights)))

SpecSimilarity == InitSimilarity /\ [][Similarity]_vars

\* --------------------------------------- average_features called on its own
MaxVectors == 3
\* a vector with all nine dimensions
FullFeatures(energy, tempo) ==
    [k \in KeySet |-> CASE k = "energy" -> energy [] k = "tempo" -> tempo
                         [] k = "loudness" -> <<-30, 1>> [] OTHER -> RHalf]
\* vectors with energy and tempo present or not, and two complete ones
AverageVectors ==
    {f \in FeatureVectors : DOMAIN f \subseteq {"energy", "tempo"} /\ Get(f, "energy", ROne) # RZero}
        \cup {FullFeatures(ROne, <<120, 1>>), FullFeatures(RHalf, <<200, 1>>)}

InitAverage ==
    PureCall({a \in [features_list : UNION {[1..n -> AverageVectors] : n \in 0..MaxVectors}] : TRUE})

\* average_features: ValueError on an empty list, else the averages
Average ==
    PureReturn(IF fn_args.features_list = <<>>
               THEN FnRaise(ValueError("Cannot average empty features list"))
               ELSE FnReturn(average_features(fn_args.features_list)))

SpecAverage == InitAverage /\ [][Average]_vars

\* --------------------------------------- get_track_genres called on its own
MaxArtists == 2
\* track["artists"]: up to MaxArtists artists, one possibly credited twice
ArtistLists == UNION {[1..n -> {1, 2}] : n \in 0..MaxArtists}
\* artist_data.get("genres", []) of a fetched artist
GenreLists == {<<>>, <<Rock>>, <<Jazz>>, <<Rock, Jazz>>}

InitTrackGenres ==
    /\ HandlerIdle
    /\ GcNotCalled
    /\ calls = <<>>
    /\ fn_pc = "artist"
    /\ fn_args \in [artists : ArtistLists]
    /\ fn_locals = [all_genres |-> <<>>, i |-> 1, answers |-> <<>>]
    /\ fn_ret = <<>>

\* one iteration of `for artist in track.get("artists", [])`: the fetch fails
\* and the artist is skipped, or its genres extend all_genres
\* (answers records what the service answered)
TgArtist ==
    /\ fn_pc = "artist"
    /\ fn_locals.i <= Len(fn_args.artists)
    /\ calls' = Append(calls, Call("GET artists/{id}", fn_args.artists[fn_locals.i], 0, 0, <<>>))
    /\ \/ fn_locals' = [fn_locals EXCEPT
                !.i = @ + 1,
                !.answers = Append(@, [ok |-> FALSE, genres |-> <<>>])]
       \/ \E genres \in GenreLists :
             fn_locals' = [fn_locals EXCEPT
                 !.all_genres = @ \o genres,
                 !.i = @ + 1,
                 !.answers = Append(@, [ok |-> TRUE, genres |-> genres])]
    /\ UNCHANGED <<h_vars, gc_vars, fn_pc, fn_args, fn_ret>>

\* `return list(set(all_genres))`
TgReturn ==
    /\ fn_pc = "artist"
    /\ fn_locals.i > Len(fn_args.artists)
    /\ fn_pc' = "done"
    /\ \E genres \in ListOfSet(fn_locals.all_genres) : fn_ret' = FnReturn(genres)
    /\ UNCHANGED <<h_vars, gc_vars, calls, fn_args, fn_locals>>

TgNext == TgArtist \/ TgReturn

SpecTrackGenres == InitTrackGenres /\ [][TgNext]_vars

\* -------------------------------- truncate_list_response called on its own
MaxItems == 4
MaxChars == 3
\* the arguments: items 1..n, max_chars, and for format_func the length of
\* the text it gives for each non-empty prefix of items (any function)
TruncateArgs ==
    UNION {[items : {[i \in 1..n |-> i]}, max_chars : 0..MaxChars,
            lengths : [1..n -> 0..(MaxChars + 1)]] : n \in 0..MaxItems}

\* a text counts as fitting only below max_chars
FitsStrictly(length, max_chars) == length < max_chars
\* len(formatted) <= max_chars
Fits(length, max_chars) == length <= max_chars

InitTruncate ==
    /\ HandlerIdle
    /\ GcNotCalled
    /\ calls = <<>>
    /\ fn_pc = "call"
    /\ fn_args \in TruncateArgs
    /\ fn_locals = <<>>
    /\ fn_ret = <<>>

\* the two early returns, else the start of the binary search
TlEnter ==
    /\ fn_pc = "call"
    /\ IF fn_args.items = <<>>
       THEN /\ fn_pc' = "done"
            /\ fn_ret' = FnReturn([items |-> fn_args.items, truncated |-> FALSE])
            /\ UNCHANGED fn_locals
       ELSE IF Fits(fn_args.lengths[Len(fn_args.items)], fn_args.max_chars)
       THEN /\ fn_pc' = "done"
            /\ fn_ret' = FnReturn([items |-> fn_args.items, truncated |-> FALSE])
            /\ UNCHANGED fn_locals
       ELSE /\ fn_pc' = "search"
            /\ fn_locals' = [left |-> 1, right |-> Len(fn_args.items), best_count |-> 1]
            /\ UNCHANGED fn_ret
    /\ UNCHANGED <<h_vars, gc_vars, calls, fn_args>>

\* one iteration of `while left <= right`
TlSearch ==
    /\ fn_pc = "search"
    /\ fn_locals.left <= fn_locals.right
    /\ LET mid == (fn_locals.left + fn_locals.right) \div 2 IN
       fn_locals' = IF Fits(fn_args.lengths[mid], fn_args.max_chars)
                    THEN [fn_locals EXCEPT !.best_count = mid, !.left = mid + 1]
                    ELSE [fn_locals EXCEPT !.right = mid - 1]
    /\ UNCHANGED <<h_vars, gc_vars, calls, fn_args, fn_pc, fn_ret>>

\* `return items[:best_count], True`
TlReturn ==
    /\ fn_pc = "search"
    /\ fn_locals.left > fn_locals.right
    /\ fn_pc' = "done"
    /\ fn_ret' = FnReturn([items |-> Take(fn_args.items, fn_locals.best_count),
                           truncated |-> TRUE])
    /\ UNCHANGED <<h_vars, gc_vars, calls, fn_args, fn_locals>>

TlNext == TlEnter \/ TlSearch \/ TlReturn

SpecTruncate == InitTruncate /\ [][TlNext]_vars

\* the function is sequential code: it always takes its next step
SpecTruncateFair == SpecTruncate /\ WF_vars(TlNext)

\* ------------------------------------ create_playlist_helper called on its own
\* the ids the current user can have
UserIds == {UserId, UserId + 1}

InitCreate ==
    PureCall([name : {1, 2}, description : {None, 3}, public : BOOLEAN,
              collaborative : BOOLEAN])

\* `if collaborative and public: raise ValueError(...)`
HelperCheck ==
    /\ fn_pc = "call"
    /\ fn_locals' = [user_id |-> None]
    /\ IF CreateRejected(fn_args.public, fn_args.collaborative)
       THEN /\ fn_pc' = "done"
            /\ fn_ret' = FnRaise(ValueError("A playlist cannot be both collaborative and public"))
       ELSE /\ fn_pc' = "me"
            /\ UNCHANGED fn_ret
    /\ UNCHANGED <<h_vars, gc_vars, calls, fn_args>>

\* user_data = await make_spotify_request("me"); user_id = user_data["id"]
HelperUser ==
    /\ fn_pc = "me"
    /\ calls' = Append(calls, Call("GET me", None, 0, 0, <<>>))
    /\ \/ \E e \in ServiceFailures :
             /\ fn_pc' = "done"
             /\ fn_ret' = FnRaise(e)
             /\ UNCHANGED fn_locals
       \/ \E id \in UserIds :
             /\ fn_locals' = [fn_locals EXCEPT !.user_id = id]
             /\ fn_pc' = "post"
             /\ UNCHANGED fn_ret
    /\ UNCHANGED <<h_vars, gc_vars, fn_args>>

\* make_spotify_request(f"users/{user_id}/playlists", method="POST", json=payload)
HelperPost ==
    /\ fn_pc = "post"
    /\ calls' = Append(calls, Call("POST users/{id}/playlists", fn_locals.user_id, 0, 0,
                                   CreatePayload(fn_args.name, fn_args.description,
                                                 fn_args.public, fn_args.collaborative)))
    /\ fn_pc' = "done"
    /\ \/ \E e \in ServiceFailures : fn_ret' = FnRaise(e)
       \/ \E id \in NewPlaylistIds : fn_ret' = FnReturn(id)
    /\ UNCHANGED <<h_vars, gc_vars, fn_args, fn_locals>>

HelperNext == HelperCheck \/ HelperUser \/ HelperPost

SpecCreate == InitCreate /\ [][HelperNext]_vars

\* ======================================================================
\* Claims about spotify_find_similar_tracks (specification Spec)
\* ======================================================================

WriteOps == {"POST users/{id}/playlists", "POST playlists/{id}/tracks"}
Issued(ops) == \E i \in DOMAIN calls : calls[i].op \in ops
\* the sort and the truncation have run
Ranked ==
    \/ pc \in {"create_user", "create_post", "add"}
    \/ pc = "done" /\ (result.kind # "error" \/ Issued(WriteOps \cup {"GET me"}))

\* a request the validation rejects
ValidationFails ==
    \/ params.track_id = None /\ params.artist_id = None /\ params.playlist_id = None
    \/ params.scope # CATALOG /\ params.scope_id = None
    \/ params.action = CREATE_PLAYLIST /\ params.playlist_name = None
    \/ params.action = ADD_TO_PLAYLIST /\ params.target_playlist_id = None
    \/ params.strategy = GENRE_MATCH /\ params.scope = CATALOG

\* C1: a request that fails validation (no source, no scope_id for a scope
\* other than catalog, create_playlist without a name, add_to_playlist without
\* a target, genre_match with catalog) never issues a request to the service
\* and, once it has ended, has returned an error.
C1_ValidationFailsFast ==
    ValidationFails =>
        /\ calls = <<>>
        /\ pc \in {"start", "done"}
        /\ pc = "done" => result.kind = "error"

\* C1 witness: a genre_match request on the catalog scope, valid otherwise,
\* has been rejected.
C1_Witness ==
    /\ pc = "done"
    /\ result.kind = "error"
    /\ params.strategy = GENRE_MATCH /\ params.scope = CATALOG
    /\ params.track_id # None
    /\ params.action = CREATE_PLAYLIST /\ params.playlist_name # None

\* C2: with action create_playlist or add_to_playlist, once the list is
\* ranked and truncated and is empty, the request has ended with the
\* no-matches result and no createPlaylist / addTracksToPlaylist was issued.
C2_NoMutationOnEmpty ==
    (/\ params.action \in {CREATE_PLAYLIST, ADD_TO_PLAYLIST}
     /\ Ranked
     /\ similar_tracks = <<>>)
    => /\ pc = "done"
       /\ result = NoMatches
       /\ ~Issued(WriteOps)

\* C2 witness: a create_playlist request collected candidates, scored one,
\* the filter dropped all of it, and the request ended.
C2_Witness ==
    /\ params.action = CREATE_PLAYLIST
    /\ pc = "done"
    /\ scored # <<>>
    /\ similar_tracks = <<>>
    /\ result.kind = "no_matches"

DeleteOps == {"DELETE playlists/{id}/followers"}

\* C3: when createPlaylist succeeded and addTracksToPlaylist failed, the
\* error result surfaces the created playlist, and no request deleting the
\* playlist was issued.
C3_PartialSuccessSurfaced ==
    (/\ pc = "done"
     /\ params.action = CREATE_PLAYLIST
     /\ playlist_data # None
     /\ result.kind = "error")
    => /\ result.playlist_id = playlist_data
       /\ ~Issued(DeleteOps)

AddCalls == {i \in DOMAIN calls : calls[i].op = "POST playlists/{id}/tracks"}

\* C4: every addTracksToPlaylist request carries the uris of the ranked,
\* truncated list in its order; under create_playlist it directly follows the
\* successful createPlaylist and targets the id that call returned, under
\* add_to_playlist it targets target_playlist_id.
C4_AddMatchesRanking ==
    \A i \in AddCalls :
        /\ Len(calls[i].data) = Len(similar_tracks)
        /\ \A k \in DOMAIN similar_tracks : calls[i].data[k] = similar_tracks[k].track.uri
        /\ params.action = CREATE_PLAYLIST =>
              /\ i > 1
              /\ calls[i - 1].op = "POST users/{id}/playlists"
              /\ playlist_data \in NewPlaylistIds
              /\ calls[i].id = playlist_data
        /\ params.action = ADD_TO_PLAYLIST => calls[i].id = params.target_playlist_id
        /\ params.action # RETURN_TRACKS

\* C4 witness: a playlist was created and two tracks with different uris
\* were added to it.
C4_Witness ==
    /\ pc = "done"
    /\ result.kind = CREATE_PLAYLIST
    /\ result.tracks_added = 2
    /\ similar_tracks[1].track.uri # similar_tracks[2].track.uri
    /\ AddCalls # {}

\* a > b on scores
ScoreAbove(a, b) == a[1] * b[2] > b[1] * a[2]

\* C5: the ranked list, and the list returned, is ordered by score
\* non-increasing and entries of equal score keep their collection order; the
\* order is thereby fixed by the scores and the collection order alone.
C5_RankedStable ==
    Ranked =>
        /\ \A i, j \in DOMAIN similar_tracks :
              i < j => \/ ScoreAbove(similar_tracks[i].similarity, similar_tracks[j].similarity)
                       \/ /\ similar_tracks[i].similarity = similar_tracks[j].similarity
                          /\ similar_tracks[i].pos < similar_tracks[j].pos
        /\ result.kind = "tracks" => result.tracks = similar_tracks

\* C5 witness: a returned list of two entries with the same score.
C5_Witness ==
    /\ pc = "done"
    /\ result.kind = "tracks"
    /\ Len(result.tracks) = 2
    /\ result.tracks[1].similarity = result.tracks[2].similarity

\* the scored candidates at or above the threshold, in order
AtOrAbove(entries) ==
    SelectSeq(entries, LAMBDA e :
        \/ params.min_similarity = NoMin
        \/ e.similarity[1] * params.min_similarity[2]
              >= params.min_similarity[1] * e.similarity[2])

\* C6: the list handed to the sort holds exactly the scored candidates whose
\* score is at least min_similarity (equal included), and all of them when
\* min_similarity is not given, under genre_match and the audio strategies.
C6_FilterThreshold ==
    /\ pc \in {"score_genre", "rank"} => similar_tracks = AtOrAbove(scored)
    /\ Ranked => pre_sort = AtOrAbove(scored)
    /\ params.min_similarity = NoMin /\ pc \in {"score_genre", "rank"} => similar_tracks = scored

\* C6 witness: with a threshold, one candidate scored exactly the threshold
\* and was kept, another scored below it and was dropped.
C6_Witness ==
    /\ pc = "rank"
    /\ params.min_similarity # NoMin
    /\ Len(scored) = 2
    /\ Len(similar_tracks) = 1
    /\ similar_tracks[1].similarity = params.min_similarity

\* C7: the ranked list has at most `limit` entries, they are the first
\* `limit` of the sorted list: all come from the filtered list, and no
\* filtered candidate left out scores above a returned one.
C7_TruncatedPrefix ==
    Ranked =>
        /\ Len(similar_tracks) = Min(params.limit, Len(pre_sort))
        /\ \A k \in DOMAIN similar_tracks : \E m \in DOMAIN pre_sort : pre_sort[m] = similar_tracks[k]
        /\ \A m \in DOMAIN pre_sort :
              (\A k \in DOMAIN similar_tracks : similar_tracks[k].pos # pre_sort[m].pos)
              => \A k \in DOMAIN similar_tracks :
                    ~ScoreAbove(pre_sort[m].similarity, similar_tracks[k].similarity)
        /\ result.kind = "tracks" => Len(result.tracks) <= params.limit

\* C7 witness: two candidates passed the filter, the limit is 1, and the one
\* returned is the second collected, which scores higher.
C7_Witness ==
    /\ pc = "done"
    /\ result.kind = "tracks"
    /\ params.limit = 1
    /\ Len(pre_sort) = 2
    /\ result.tracks[1].pos = 2

\* the scoring of the candidates has ended
ScoringOver == pc = "rank" \/ Ranked
Listed(e, list) == \E k \in DOMAIN list : list[k] = e

\* C11: every candidate scored, and so every track of the result, had usable
\* data: under an audio strategy its id is in the fetched feature map, under
\* genre_match get_track_genres returned a non-empty list for it; and once
\* candidates are collected the request ends in an error only after ranking.
C11_OnlyUsableScored ==
    /\ \A k \in DOMAIN scored :
          /\ scored[k].pos \in DOMAIN candidate_tracks
          /\ scored[k].track = candidate_tracks[scored[k].pos]
          /\ params.strategy # GENRE_MATCH => scored[k].track.id \in DOMAIN features_map
          /\ params.strategy = GENRE_MATCH =>
                /\ scored[k].pos \in DOMAIN target_genres
                /\ target_genres[scored[k].pos] # <<>>
    /\ \A k \in DOMAIN similar_tracks : Listed(similar_tracks[k], scored)
    /\ \A k \in DOMAIN result.tracks : Listed(result.tracks[k], scored)
    /\ (candidate_tracks # <<>> /\ pc = "done" /\ result.kind = "error") => Ranked

\* C11 witness: two candidates were collected under an audio strategy with no
\* threshold, one had no features, and the other alone was returned.
C11_Witness ==
    /\ pc = "done"
    /\ result.kind = "tracks"
    /\ params.strategy # GENRE_MATCH
    /\ params.min_similarity = NoMin
    /\ params.limit = 2
    /\ Len(candidate_tracks) = 2
    /\ candidate_tracks[1].id \notin DOMAIN features_map
    /\ Len(result.tracks) = 1
    /\ result.tracks[1].pos = 2

RecCalls == {i \in DOMAIN calls : calls[i].op = "GET recommendations"}
CollectorOps == {"GET playlists/{id}/tracks", "GET me/tracks", "GET artists/{id}/top-tracks",
                 "GET artists/{id}/albums", "GET albums/{id}/tracks", "GET tracks/{id}"}
\* the request is past the collection of candidates
Collected == pc = "score_audio" \/ ScoringOver

\* the recommendation queries of a catalog request under an audio strategy:
\* at most one, exactly one once the candidates are collected, asking for
\* `limit` results, and get_candidate_tracks is never entered
C12_OneQuery ==
    (params.scope = CATALOG /\ params.strategy # GENRE_MATCH) =>
        /\ Cardinality(RecCalls) <= 1
        /\ Collected => Cardinality(RecCalls) = 1
        /\ \A i \in RecCalls : calls[i].limit = params.limit
        /\ gc_pc = "idle"

\* C12: a catalog request under an audio strategy issues exactly one
\* recommendation query, for `limit` results, seeded by the track id or the
\* artist id of the source, and does not enter get_candidate_tracks.
C12_SeededQuery ==
    /\ C12_OneQuery
    /\ (params.scope = CATALOG /\ params.strategy # GENRE_MATCH) =>
          \A i \in RecCalls :
              \/ calls[i].data[1] = "seed_tracks" /\ calls[i].id = params.track_id
                                                 /\ params.track_id # None
              \/ calls[i].data[1] = "seed_artists" /\ calls[i].id = params.artist_id
                                                  /\ params.artist_id # None

TargetKeys == <<"acousticness", "danceability", "energy", "instrumentalness",
                "valence", "tempo">>
\* the six target values of the i-th request
TargetsSent(i) == SubSeq(calls[i].data, 2, 7)

\* C22 as stated: the six targets of the recommendation query are the source
\* vector's values in normalized space; the tempo target is
\* (source tempo - 50) / 150.
C22_TargetsNormalized ==
    \A i \in RecCalls :
        /\ \A j \in DOMAIN TargetKeys :
              TargetsSent(i)[j] = normalize_audio_features(source_features)[TargetKeys[j]]
        /\ TargetsSent(i)[6] = RDiv(RSub(source_features["tempo"], <<50, 1>>), <<150, 1>>)

\* C22 amended: the six targets of the recommendation query are the source
\* vector's own values as get_source_features returned them; for the five
\* dimensions that normalization passes through they are the normalized
\* values too, and the tempo target is the source tempo in BPM.
C22_TargetsRaw ==
    \A i \in RecCalls :
        /\ Len(calls[i].data) = 7
        /\ \A j \in DOMAIN TargetKeys :
              TargetsSent(i)[j] = source_features[TargetKeys[j]]
        /\ \A j \in 1..5 :
              TargetsSent(i)[j] = normalize_audio_features(source_features)[TargetKeys[j]]
        /\ TargetsSent(i)[6] = source_features["tempo"]

\* C22 witness: a recommendation query was sent for a source of energy 1 and
\* tempo 120 BPM, with 1 and 120 as its energy and tempo targets.
C22_Witness ==
    /\ RecCalls # {}
    /\ source_features["energy"] = ROne
    /\ source_features["tempo"] = <<120, 1>>
    /\ \A i \in RecCalls : TargetsSent(i)[3] = ROne /\ TargetsSent(i)[6] = <<120, 1>>

CreateCalls == {i \in DOMAIN calls : calls[i].op = "POST users/{id}/playlists"}
\* the source is resolved, the candidates are collected, scored and filtered,
\* and the list is sorted and truncated
ReadyToWrite ==
    /\ pc \in {"create_post", "add"}
    /\ Ranked
    /\ gc_pc = "idle"
    /\ IF params.strategy = GENRE_MATCH THEN source_genres # <<>> ELSE source_features # <<>>
    /\ candidate_tracks # <<>>
    /\ similar_tracks # <<>>
    /\ \A k \in DOMAIN similar_tracks : Listed(similar_tracks[k], scored)
    /\ Len(similar_tracks) <= params.limit
\* the writes come last, each at most once, and never for return_tracks
WritesLast ==
    /\ params.action = RETURN_TRACKS => ~Issued(WriteOps)
    /\ Cardinality(CreateCalls) <= 1
    /\ Cardinality(AddCalls) <= 1
    /\ \A i, j \in DOMAIN calls : (i < j /\ calls[i].op \in WriteOps) => calls[j].op \in WriteOps
\* a step that issues a write starts from a ranked list and leaves it as it is
WriteStep ==
    \A i \in (Len(calls) + 1)..Len(calls') :
        calls'[i].op \in WriteOps =>
            /\ ReadyToWrite
            /\ UNCHANGED <<similar_tracks, scored, candidate_tracks>>

\* C27: playlist mutation is the last step of spotify_find_similar_tracks:
\* return_tracks issues no write; createPlaylist and addTracksToPlaylist are
\* each requested at most once and only once the source is resolved and the
\* candidates are collected, scored, filtered, ranked and truncated; no read
\* request follows a write.
C27_MutationLast ==
    /\ []WritesLast
    /\ [][WriteStep]_vars

\* C27 witness: a create_playlist request has ended after reads followed by
\* the creation and the addition, its last two requests.
C27_Witness ==
    /\ pc = "done"
    /\ result.kind = CREATE_PLAYLIST
    /\ Len(calls) >= 4
    /\ calls[Len(calls) - 1].op = "POST users/{id}/playlists"
    /\ calls[Len(calls)].op = "POST playlists/{id}/tracks"
    /\ \A i \in 1..(Len(calls) - 2) : calls[i].op \notin WriteOps

\* the identifiers the request supplies, by precedence
SuppliedIds == {params.track_id, params.artist_id, params.playlist_id} \ {None}
ChosenKind ==
    IF params.track_id # None THEN "track"
    ELSE IF params.artist_id # None THEN "artist"
    ELSE "playlist"
ChosenId ==
    IF params.track_id # None THEN params.track_id
    ELSE IF params.artist_id # None THEN params.artist_id
    ELSE params.playlist_id
LowerIds == SuppliedIds \ {ChosenId}
\* the request that opens the resolution of a source of kind `kind`
EntryOps(kind) ==
    CASE kind = "track" -> {"GET audio-features/{id}", "GET tracks/{id}"}
      [] kind = "artist" -> {"GET artists/{id}/top-tracks", "GET artists/{id}"}
      [] kind = "playlist" -> {"GET playlists/{id}/tracks"}

\* C29: when a request supplies more than one of track_id, artist_id and
\* playlist_id, the source resolved is the first supplied of track_id,
\* artist_id, playlist_id, for the audio features and for the genres alike;
\* the recommendation query is seeded by that same identifier, and no request
\* is made about an identifier of lower precedence
C29_SourcePrecedence ==
    Cardinality(SuppliedIds) > 1 =>
        /\ \A i \in DOMAIN calls : calls[i].id \notin LowerIds
        /\ pc \in {"collect", "score_audio"} => calls # <<>>
        /\ calls # <<>> =>
              /\ calls[1].id = ChosenId
              /\ calls[1].op \in EntryOps(ChosenKind)
        /\ \A i \in RecCalls :
              /\ calls[i].id = ChosenId
              /\ calls[i].data[1] = (IF ChosenKind = "track" THEN "seed_tracks" ELSE "seed_artists")

C29_Witness ==
    /\ Cardinality(SuppliedIds) = 3
    /\ Len(calls) = 2
    /\ calls[1].op = "GET audio-features/{id}"
    /\ calls[1].id = params.track_id
    /\ calls[2].op = "GET recommendations"
    /\ calls[2].id = params.track_id

\* C28: whenever spotify_find_similar_tracks requests addTracksToPlaylist
\* it passes at least 1 and at most `limit` URIs, hence at most 100 for every
\* accepted input, even when 500 candidates were collected.
C28_UrisWithinLimit ==
    \A i \in AddCalls :
        /\ 1 <= Len(calls[i].data)
        /\ Len(calls[i].data) <= params.limit
        /\ Len(calls[i].data) <= 100

\* C28 witness: 500 candidates were collected and scored, the limit is 100
\* and 100 URIs were passed.
C28_Witness ==
    /\ Len(candidate_tracks) = 500
    /\ Len(scored) = 500
    /\ params.limit = 100
    /\ \E i \in AddCalls : Len(calls[i].data) = 100

\* the handler caught a failure of a request to the service
ServiceFailureCaught == result.exc.type \in {"HTTPStatusError", "TimeoutException"}
\* the message of each kind of failure
MessageOfKind ==
    IF result.exc.type = "TimeoutException" THEN <<"Error: Request timed out. Please try again.">>
    ELSE IF result.exc.status = 401
    THEN <<"Error: Authentication failed. Please check your SPOTIFY_ACCESS_TOKEN is valid and not expired. You may need to refresh your token.">>
    ELSE IF result.exc.status = 403
    THEN <<"Error: Permission denied. Ensure your access token has the required scopes: playlist-modify-public, playlist-modify-private, playlist-read-private.">>
    ELSE IF result.exc.status = 404
    THEN <<"Error: Resource not found. Please check the ID is correct.">>
    ELSE IF result.exc.status = 429
    THEN <<"Error: Rate limit exceeded. Please wait before making more requests.">>
    ELSE <<"Error: Spotify API request failed with status ", ToString(result.exc.status)>>

C14_ErrorResult ==
    ServiceFailureCaught =>
        /\ pc = "done"
        /\ calls # <<>>
        /\ result.kind = "error"
        /\ result.text = MessageOfKind
        /\ result.tracks = <<>>
        /\ result.tracks_added = 0
        /\ result.playlist_id = None

C14_Step ==
    /\ (pc = "collecting" /\ gc_ret.kind = "raise") =>
          /\ pc' = "done"
          /\ result'.exc = gc_ret.exc
          /\ calls' = calls
    /\ gc_ret.kind = "raise" => gc_ret' = GcRunning
    /\ pc # "done"

\* C14: a failure of a request to the service that reaches the handler (from
\* the source fetch, the collection of candidates, the recommendation query,
\* createPlaylist or addTracksToPlaylist) ends the request with the one
\* message of its kind (401, 403, 404, 429, timeout, other status), without
\* tracks; a failure get_candidate_tracks raised is reported by the next
\* step with no further request; and no step follows the end of a request.
C14_FailureEndsRequest == [](C14_ErrorResult) /\ [][C14_Step]_vars

\* C14 witness: the playlist was created, addTracksToPlaylist failed with
\* status 429, and the request ended with the rate-limit message.
C14_Witness ==
    /\ pc = "done"
    /\ result.exc = HTTPStatusError(429)
    /\ result.kind = "error"
    /\ playlist_data # None
    /\ calls[Len(calls)].op = "POST playlists/{id}/tracks"

\* C15: under genre_match, once get_source_genres has returned an empty list
\* the request has ended with the no-genres error: get_candidate_tracks was
\* not entered, no candidate's genres were fetched, no playlist request issued.
C15_NoGenresStops ==
    (/\ params.strategy = GENRE_MATCH
     /\ ~ValidationFails
     /\ pc \notin {"start", "source"}
     /\ result.exc = NoExc
     /\ source_genres = <<>>)
    => /\ pc = "done"
       /\ result = ErrorResult(<<"Error: No genres found for the source track/artist/playlist">>)
       /\ gc_pc = "idle" /\ gc_ret = GcRunning
       /\ candidate_tracks = <<>>
       /\ target_genres = <<>>
       /\ ~Issued(WriteOps \cup {"GET me"})

\* C15 witness: a track source whose artist fetches all failed, so that its
\* genre list is empty, and the request ended with the no-genres error.
C15_Witness ==
    /\ pc = "done"
    /\ params.strategy = GENRE_MATCH
    /\ params.track_id # None
    /\ params.action = CREATE_PLAYLIST
    /\ source_genres = <<>>
    /\ Len(calls) >= 2
    /\ calls[2].op = "GET artists/{id}"
    /\ result.kind = "error" /\ result.exc = NoExc

\* ======================================================================
\* Claims about get_candidate_tracks (specification SpecCollect)
\* ======================================================================

\* C8: get_candidate_tracks returns at most `limit` tracks, for every scope.
C8_AtMostLimit ==
    gc_ret.kind = "return" => Len(gc_ret.tracks) <= gc_args.limit

\* C9: without a scope_id, the scopes playlist, artist, album and
\* saved_tracks fail with the missing-scope-id error and issue no request;
\* the scope catalog returns the empty list and issues no request.
C9_MissingScopeId ==
    /\ (gc_args.scope # CATALOG /\ gc_args.scope_id = None) =>
          /\ calls = <<>>
          /\ gc_pc = "done" => gc_ret.kind = "raise" /\ gc_ret.exc.type = "ValueError"
    /\ gc_args.scope = CATALOG =>
          /\ calls = <<>>
          /\ gc_pc = "done" => gc_ret = GcReturn(<<>>)

\* C10: no two entries of the list get_candidate_tracks returns have the
\* same track id.
C10_NoDuplicates ==
    gc_ret.kind = "return" =>
        \A i, j \in DOMAIN gc_ret.tracks :
            i # j => gc_ret.tracks[i].id # gc_ret.tracks[j].id

\* ======================================================================
\* Claims about the pagination of get_candidate_tracks (specifications
\* SpecPaging and SpecPagingFair)
\* ======================================================================

\* the entries of the listing that carry a track, in listing order
ListedTracks == SelectSeq(fn_args.listing, HasTrack)
\* how many of the first `off` entries of the listing carry a track
TracksBefore(off) ==
    Len(SelectSeq(SubSeq(fn_args.listing, 1, Min(off, Len(fn_args.listing))), HasTrack))
\* how many entries the listing has from offset off on, up to n
ItemsAt(n, off) == Max(0, Min(off + n, Len(fn_args.listing)) - off)

\* C23: for the scopes playlist and saved_tracks with limit >= 1 every page
\* request asks for between 1 and 50 items and for no more than the tracks
\* still needed; the first offset is 0 and each further offset is the previous
\* one plus the number of items received, so no position is asked for twice or
\* skipped; the list returned is the first min(limit, R) entries that carry a
\* track, in listing order.
C23_Pagination ==
    gc_args.limit >= 1 =>
        /\ \A i \in DOMAIN calls :
              /\ 1 <= calls[i].limit /\ calls[i].limit <= PAGE_SIZE
              /\ calls[i].limit <= gc_args.limit - TracksBefore(calls[i].offset)
              /\ calls[i].offset =
                    IF i = 1 THEN 0
                    ELSE calls[i - 1].offset + ItemsAt(calls[i - 1].limit, calls[i - 1].offset)
        /\ gc_ret.kind = "return" => gc_ret.tracks = Take(ListedTracks, gc_args.limit)

\* C23 witness: 51 tracks were asked of a listing of 101 entries of which
\* every third carries no track; they came back after at least three pages.
C23_Witness ==
    /\ gc_ret.kind = "return"
    /\ gc_args.limit = PAGE_SIZE + 1
    /\ fn_args.listing = LongListing(2 * PAGE_SIZE + 1, MaxHoles)
    /\ Len(calls) >= 3
    /\ Len(gc_ret.tracks) = PAGE_SIZE + 1
    /\ gc_ret.tracks[3] = TrackObj(4)

\* the i-th request was answered with an empty page
EmptyAnswer(i) == ItemsAt(calls[i].limit, calls[i].offset) = 0
\* every request was issued while tracks were still needed and no page had
\* come back empty
NoNeedlessRequest ==
    \A i \in DOMAIN calls :
        /\ TracksBefore(calls[i].offset) < gc_args.limit
        /\ \A j \in 1..(i - 1) : ~EmptyAnswer(j)
\* the function has ended because a request failed
PagingFailed == gc_ret.kind = "raise"
\* a return comes when `limit` tracks are gathered or after an empty page
ReturnedWhenDone ==
    gc_ret.kind = "return" =>
        \/ Len(gc_ret.tracks) >= gc_args.limit
        \/ calls # <<>> /\ EmptyAnswer(Len(calls))
\* no request is issued once the function has ended
PagingStep == gc_pc = "done" => calls' = calls

\* C24: over a finite listing the pagination loop of get_candidate_tracks
\* eventually ends for every limit, whatever entries carry no track, and it
\* issues no request once `limit` tracks are gathered or an empty page has
\* been received.
C24_PagingTerminates ==
    /\ <>(gc_pc = "done")
    /\ [](NoNeedlessRequest /\ ReturnedWhenDone)
    /\ [][PagingStep]_vars

\* C24 witness: with limit 1 over a listing of 51 entries none of which
\* carries a track, the loop has asked for every entry, received an empty
\* page and returned the empty list.
C24_Witness ==
    /\ gc_pc = "done"
    /\ gc_ret = GcReturn(<<>>)
    /\ gc_args.limit = 1
    /\ fn_args.listing = LongListing(PAGE_SIZE + 1, 1)
    /\ Len(calls) = PAGE_SIZE + 2
    /\ EmptyAnswer(Len(calls))

\* ======================================================================
\* Claims about the artist scope of get_candidate_tracks (specification
\* SpecArtist)
\* ======================================================================

\* the ids of the requests of one kind, in the order issued
IdsAsked(op) ==
    LET cs == SelectSeq(calls, LAMBDA c : c.op = op) IN [i \in DOMAIN cs |-> cs[i].id]
IsPrefix(a, b) == Len(a) <= Len(b) /\ a = SubSeq(b, 1, Len(a))
\* the albums whose tracks may be listed: the first five returned
FirstAlbums == Take(fn_args.albums, 5)
RECURSIVE AlbumOrderIds(_)
\* the track ids of the first albums, album after album
AlbumOrderIds(i) ==
    IF i > Len(FirstAlbums) THEN <<>>
    ELSE fn_args.album_tracks[FirstAlbums[i]] \o AlbumOrderIds(i + 1)
AlbumOrderTracks == [i \in DOMAIN AlbumOrderIds(1) |-> TrackObj(AlbumOrderIds(1)[i])]

\* C25: for scope artist, get_candidate_tracks issues one top-tracks request
\* and one albums request, lists the tracks of at most the first 5 albums
\* returned, fetches the detail of an album track only while fewer than
\* `limit` tracks are accumulated (at most max(0, limit - top tracks)
\* fetches), and returns the top tracks followed by the album tracks in album
\* order, truncated to `limit`.
C25_ArtistScope ==
    gc_args.scope_id # None =>
        /\ Len(IdsAsked("GET artists/{id}/top-tracks")) <= 1
        /\ Len(IdsAsked("GET artists/{id}/albums")) <= 1
        /\ IsPrefix(IdsAsked("GET albums/{id}/tracks"), FirstAlbums)
        /\ Len(IdsAsked("GET albums/{id}/tracks")) <= 5
        /\ IsPrefix(IdsAsked("GET tracks/{id}"), AlbumOrderIds(1))
        /\ Len(IdsAsked("GET tracks/{id}")) <= Max(0, gc_args.limit - Len(fn_args.top))
        /\ gc_ret.kind = "return" =>
              /\ Len(calls) >= 2
              /\ calls[1].op = "GET artists/{id}/top-tracks"
              /\ calls[2].op = "GET artists/{id}/albums"
              /\ Len(IdsAsked("GET artists/{id}/top-tracks")) = 1
              /\ Len(IdsAsked("GET artists/{id}/albums")) = 1
              /\ IdsAsked("GET albums/{id}/tracks") = FirstAlbums
              /\ gc_ret.tracks = Take(fn_args.top \o AlbumOrderTracks, gc_args.limit)

\* C25 witness: an artist with 3 top tracks and 7 albums of 2 tracks each,
\* limit 6: five albums were listed, three details fetched, six tracks
\* returned, the last being the first track of the second album.
C25_Witness ==
    /\ gc_ret.kind = "return"
    /\ gc_args.limit = 6
    /\ Len(fn_args.top) = 3
    /\ Len(fn_args.albums) = 7
    /\ Len(IdsAsked("GET albums/{id}/tracks")) = 5
    /\ IdsAsked("GET tracks/{id}") = <<11, 12, 21>>
    /\ Len(gc_ret.tracks) = 6
    /\ gc_ret.tracks[6] = TrackObj(21)

\* ======================================================================
\* Claims about get_audio_features_for_tracks (specification SpecFeatures)
\* ======================================================================

BatchCalls == SelectSeq(calls, LAMBDA c : c.op = "GET audio-features?ids=")
SingleCalls(id) == {i \in DOMAIN calls : calls[i].op = "GET audio-features/{id}" /\ calls[i].id = id}
RECURSIVE Flatten(_, _)
Flatten(cs, k) == IF k > Len(cs) THEN <<>> ELSE cs[k].data \o Flatten(cs, k + 1)

\* C13: when get_audio_features_for_tracks has ended it has returned a map;
\* its batch requests, in order, are consecutive pieces of track_ids of 100
\* ids (the last of at most 100); every id of a failed batch was fetched
\* individually once and is in the map if that fetch succeeded; ids of a
\* batch that succeeded were not fetched individually and are in the map
\* exactly when the service has features for them.
C13_BatchesAndFallback ==
    fn_pc = "done" =>
        /\ fn_ret.kind = "return"
        /\ Flatten(BatchCalls, 1) = fn_args.track_ids
        /\ \A k \in DOMAIN BatchCalls :
              /\ Len(BatchCalls[k].data) \in 1..100
              /\ k < Len(BatchCalls) => Len(BatchCalls[k].data) = 100
              /\ \A j \in DOMAIN BatchCalls[k].data :
                    LET id == BatchCalls[k].data[j] IN
                    IF fn_locals.ok[k]
                    THEN /\ SingleCalls(id) = {}
                         /\ id \in DOMAIN fn_ret.value <=> id \notin fn_args.no_features
                    ELSE /\ Cardinality(SingleCalls(id)) = 1
                         /\ id \notin fn_args.no_features => id \in DOMAIN fn_ret.value

\* C13 witness: 201 ids, the second of three batch requests failed, an id of
\* it has features and is in the returned map, another has none and is not.
C13_Witness ==
    /\ fn_pc = "done"
    /\ Len(fn_args.track_ids) = 201
    /\ fn_locals.ok = <<TRUE, FALSE, TRUE>>
    /\ 101 \in DOMAIN fn_ret.value
    /\ 102 \notin DOMAIN fn_ret.value
    /\ 201 \in DOMAIN fn_ret.value

\* ======================================================================
\* Claims about calculate_genre_similarity (specification SpecGenre)
\* ======================================================================

\* a genre in lower case
Folded(g) == [i \in DOMAIN g |-> IF g[i] \in 31..59 THEN g[i] - 30 ELSE g[i]]
Contains(b, a) == \E k \in 0..(Len(b) - Len(a)) : SubSeq(b, k + 1, k + Len(a)) = a
\* twice the points of the source genre s against the target list
TwicePoints(s, target) ==
    IF \E j \in DOMAIN target : Folded(target[j]) = Folded(s) THEN 2
    ELSE IF \E j \in DOMAIN target : \/ Contains(Folded(target[j]), Folded(s))
                                      \/ Contains(Folded(s), Folded(target[j]))
         THEN 1
         ELSE 0
RECURSIVE TwiceTotal(_, _, _)
TwiceTotal(source, target, i) ==
    IF i > Len(source) THEN 0
    ELSE TwicePoints(source[i], target) + TwiceTotal(source, target, i + 1)

\* C16: calculate_genre_similarity returns 0 when either list is empty and
\* otherwise min(total / |source|, 1), a source genre counting 1 for an exact
\* match after lower-casing, else 1/2 for a substring match either way, else
\* 0; the result is in [0, 1], a non-empty list against itself gives 1, and
\* [rock, electronic] against [rock, electronic dance] gives 3/4.
C16_GenreSimilarity ==
    fn_pc = "done" =>
        LET source == fn_args.source_genres
            target == fn_args.target_genres
            value == fn_ret.value
            twice == TwiceTotal(source, target, 1)
        IN /\ fn_ret.kind = "return"
           /\ value[2] > 0
           /\ (source = <<>> \/ target = <<>>) => value[1] = 0
           /\ (source # <<>> /\ target # <<>>) =>
                 value[1] * 2 * Len(source) = value[2] * Min(twice, 2 * Len(source))
           /\ 0 <= value[1] /\ value[1] <= value[2]
           /\ (source = target /\ source # <<>>) => value[1] = value[2]
           /\ (source = <<RockLower, Electronic>> /\ target = <<RockLower, ElectronicDance>>)
                 => value = <<3, 4>>

\* C16 witness: the call on [rock, electronic] and [rock, electronic dance]
\* has returned.
C16_Witness ==
    /\ fn_pc = "done"
    /\ fn_args.source_genres = <<RockLower, Electronic>>
    /\ fn_args.target_genres = <<RockLower, ElectronicDance>>
    /\ fn_ret.value = <<3, 4>>

\* the lists with the entries of `list` in every order
Reorderings(list) ==
    {[i \in DOMAIN list |-> list[o[i]]] : o \in Orderings(DOMAIN list)}
\* the target genres the source genre s partially matches without matching exactly
PartialMatches(s, target) ==
    {j \in DOMAIN target :
        /\ Folded(target[j]) # Folded(s)
        /\ \/ Contains(Folded(target[j]), Folded(s))
           \/ Contains(Folded(s), Folded(target[j]))}

\* C30: the score calculate_genre_similarity returned is the score of every
\* reordering of the source list against every reordering of the target
\* list: neither the order of the source genres nor which partially matching
\* target genre comes first changes it.
C30_OrderInvariant ==
    fn_pc = "done" =>
        \A source \in Reorderings(fn_args.source_genres) :
            \A target \in Reorderings(fn_args.target_genres) :
                calculate_genre_similarity(source, target) = fn_ret.value

\* C30 witness: a call has returned 1/2 for a source genre that matches the
\* second target genre only partially and the first not at all, and the
\* reordered target list, the matching genre first, scores 1/2 as well.
C30_Witness ==
    /\ fn_pc = "done"
    /\ Len(fn_args.source_genres) = 1
    /\ Len(fn_args.target_genres) = 2
    /\ PartialMatches(fn_args.source_genres[1], fn_args.target_genres) = {2}
    /\ fn_ret.value = RHalf
    /\ calculate_genre_similarity(fn_args.source_genres,
                                  <<fn_args.target_genres[2], fn_args.target_genres[1]>>) = RHalf

\* ======================================================================
\* Claims about calculate_similarity (specification SpecSimilarity)
\* ======================================================================

\* the dimensions a raw vector has, scaled, with nothing for an absent one
NormalizedPresent(features) ==
    [k \in DOMAIN features \cap KeySet |->
        CASE k = "loudness" -> RDiv(RAdd(features[k], <<60, 1>>), <<60, 1>>)
          [] k = "tempo" -> RDiv(RSub(features[k], <<50, 1>>), <<150, 1>>)
          [] OTHER -> features[k]]

\* C17: in the euclidean, weighted, manhattan and cosine scores of
\* calculate_similarity a dimension absent from the source or from the
\* candidate vector is skipped, not default-filled: the distance and the dot
\* product are those of the dimensions present in both raw vectors.
C17_AbsentSkipped ==
    fn_pc = "done" =>
        LET s == NormalizedPresent(fn_args.source_features)
            t == NormalizedPresent(fn_args.target_features)
            value == fn_ret.value
        IN CASE fn_args.strategy = "manhattan" ->
                  value = RDiv(ROne, RAdd(ROne, calculate_manhattan_distance(s, t)))
             [] fn_args.strategy = "cosine" ->
                  value.dot = calculate_cosine_similarity(s, t).dot
             [] OTHER ->
                  value = InvOnePlus(calculate_euclidean_distance(s, t, fn_args.weights))

\* the score is in (0, 1]: a rational in that interval, or 1 / (1 + sqrt(x))
\* for some x >= 0
InUnitInterval(value) ==
    IF fn_args.strategy = "manhattan"
    THEN RLess(RZero, value) /\ RLeq(value, ROne)
    ELSE value.form = "1/(1+sqrt(x))" /\ RLeq(RZero, value.x)
\* the score is 1
IsOne(value) ==
    IF fn_args.strategy = "manhattan" THEN value = ROne ELSE value.x = RZero
DistanceStrategies == {"euclidean", "weighted", "manhattan"}
\* the weight the strategy gives dimension k
WeightOf(k) ==
    IF fn_args.strategy = "weighted" THEN Get(fn_args.weights, k, ROne) ELSE ROne

Twice(x) == (2 * x[1]) \div x[2]
RECURSIVE TwiceSum(_, _, _)
\* twice the sum of dimension k over list[i..], a vector without k counting 0
TwiceSum(list, k, i) ==
    IF i > Len(list) THEN 0
    ELSE (IF k \in DOMAIN list[i] THEN Twice(list[i][k]) ELSE 0) + TwiceSum(list, k, i + 1)

\* C19: average_features raises on an empty list; on a non-empty list it
\* returns exactly the nine dimensions, each the sum over all the vectors (0
\* for a vector without the dimension) divided by the length of the list; the
\* average of one vector that has all nine dimensions is that vector.
C19_Average ==
    fn_pc = "done" =>
        LET list == fn_args.features_list
            value == fn_ret.value
        IN /\ list = <<>> => fn_ret.kind = "raise" /\ value.type = "ValueError"
           /\ list # <<>> =>
                 /\ fn_ret.kind = "return"
                 /\ DOMAIN value = KeySet
                 /\ \A k \in KeySet :
                       /\ value[k][2] > 0
                       /\ value[k][1] * 2 * Len(list) = value[k][2] * TwiceSum(list, k, 1)
           /\ (Len(list) = 1 /\ DOMAIN list[1] = KeySet) => value = list[1]

\* C19 witness: the average of a vector with energy only and a vector with
\* tempo only has half the energy and half the tempo, and 0 elsewhere.
C19_Witness ==
    /\ fn_pc = "done"
    /\ fn_args.features_list = <<[energy |-> ROne], [tempo |-> <<120, 1>>]>>
    /\ fn_ret.value["energy"] = RHalf
    /\ fn_ret.value["tempo"] = <<60, 1>>
    /\ fn_ret.value["valence"] = RZero

\* ======================================================================
\* Claims about create_playlist_helper (specification SpecCreate)
\* ======================================================================

LookupCall == Call("GET me", None, 0, 0, <<>>)
\* the creation request for the user the lookup answered
CreationCall ==
    Call("POST users/{id}/playlists", fn_locals.user_id, 0, 0,
         CreatePayload(fn_args.name, fn_args.description, fn_args.public,
                       fn_args.collaborative))
BothFlags == fn_args.collaborative /\ fn_args.public
\* the call has failed on its flags without a request
RejectedUnasked ==
    /\ fn_ret.kind = "raise"
    /\ fn_ret.value.type = "ValueError"
    /\ calls = <<>>

\* C20 as stated: with collaborative and public both true the helper fails
\* without a request; for every other combination it issues exactly one
\* current-user lookup followed by exactly one creation request for that user.
C20_LookupThenCreate ==
    fn_pc = "done" =>
        IF BothFlags THEN RejectedUnasked
        ELSE /\ fn_locals.user_id \in UserIds
             /\ calls = <<LookupCall, CreationCall>>

\* C20 amended: with collaborative and public both true the helper fails
\* without a request; for every other combination it issues exactly one
\* current-user lookup and, when the lookup succeeds, exactly one creation
\* request for that user after it; when the lookup fails the helper fails with
\* that failure and requests no creation.
C20_LookupThenCreateIfFound ==
    /\ BothFlags => calls = <<>>
    /\ fn_pc = "done" =>
          IF BothFlags THEN RejectedUnasked
          ELSE IF fn_locals.user_id \in UserIds
          THEN calls = <<LookupCall, CreationCall>>
          ELSE /\ calls = <<LookupCall>>
               /\ fn_ret.kind = "raise"
               /\ fn_ret.value \in ServiceFailures
    /\ fn_pc \in {"me", "post"} =>
          calls = IF fn_pc = "me" THEN <<>> ELSE <<LookupCall>>

\* C20 witness: a collaborative private playlist has been created for the
\* second user after one lookup.
C20_Witness ==
    /\ fn_pc = "done"
    /\ fn_args.collaborative /\ ~fn_args.public
    /\ fn_ret.kind = "return"
    /\ fn_locals.user_id = UserId + 1
    /\ Len(calls) = 2
    /\ calls[2].id = UserId + 1

\* ======================================================================
\* Claims about get_track_genres (specification SpecTrackGenres)
\* ======================================================================

\* the genres of the artists whose fetch succeeded
FetchedGenres ==
    UNION {Range(fn_locals.answers[i].genres) :
              i \in {j \in DOMAIN fn_locals.answers : fn_locals.answers[j].ok}}

\* C21: get_track_genres never fails: whichever artist fetches fail, it
\* returns the duplicate-free union of the genre lists of exactly the artists
\* whose fetch succeeded, after one fetch per artist of the track.
C21_UnionOfFetched ==
    /\ fn_ret # <<>> => fn_ret.kind = "return"
    /\ fn_pc = "done" =>
          /\ fn_ret.kind = "return"
          /\ calls = [i \in DOMAIN fn_args.artists |->
                         Call("GET artists/{id}", fn_args.artists[i], 0, 0, <<>>)]
          /\ Len(fn_locals.answers) = Len(fn_args.artists)
          /\ Range(fn_ret.value) = FetchedGenres
          /\ Len(fn_ret.value) = Cardinality(Range(fn_ret.value))

\* C21 witness: of two artists the first fetch failed and the second gave
\* rock and jazz; both genres are returned.
C21_Witness ==
    /\ fn_pc = "done"
    /\ Len(fn_args.artists) = 2
    /\ ~fn_locals.answers[1].ok
    /\ fn_locals.answers[2] = [ok |-> TRUE, genres |-> <<Rock, Jazz>>]
    /\ Range(fn_ret.value) = {Rock, Jazz}

\* ======================================================================
\* Claims about truncate_list_response (specification SpecTruncateFair)
\* ======================================================================

\* the formatted length does not decrease as items are added
LengthsMonotone ==
    \A i, j \in DOMAIN fn_args.lengths : i <= j => fn_args.lengths[i] <= fn_args.lengths[j]
\* the prefix lengths whose text is within max_chars
FittingCounts == {k \in DOMAIN fn_args.lengths : fn_args.lengths[k] <= fn_args.max_chars}
\* what the function returns in each case
TruncateResult ==
    fn_pc = "done" =>
        LET n == Len(fn_args.items)
            kept == fn_ret.value.items
        IN /\ fn_ret.kind = "return"
           /\ kept = SubSeq(fn_args.items, 1, Len(kept))
           /\ Len(kept) <= n
           /\ n = 0 => kept = <<>> /\ ~fn_ret.value.truncated
           /\ (n > 0 /\ fn_args.lengths[n] <= fn_args.max_chars) =>
                 kept = fn_args.items /\ ~fn_ret.value.truncated
           /\ (n > 0 /\ fn_args.lengths[n] > fn_args.max_chars) =>
                 /\ fn_ret.value.truncated
                 /\ kept # <<>>
                 /\ n > 1 => Len(kept) < n
                 /\ (LengthsMonotone /\ 1 \in FittingCounts) =>
                       /\ Len(kept) \in FittingCounts
                       /\ \A k \in FittingCounts : k <= Len(kept)

\* C26: truncate_list_response always terminates and returns a prefix of the
\* input: ([], False) for an empty list; (all items, False) when the full
\* text is within max_chars; otherwise (prefix, True) with a non-empty prefix,
\* strictly shorter than an input of more than one item, which is the longest
\* fitting prefix when the formatted length is non-decreasing and the first
\* item alone fits.
C26_Truncation ==
    /\ <>(fn_pc = "done")
    /\ []TruncateResult

\* C26 witness: four items of formatted lengths 1, 2, 3, 4 with max_chars 3
\* were cut to the first three.
C26_Witness ==
    /\ fn_pc = "done"
    /\ fn_args.lengths = <<1, 2, 3, 4>>
    /\ fn_args.max_chars = 3
    /\ fn_ret.value = [items |-> <<1, 2, 3>>, truncated |-> TRUE]

====
